---- MODULE Spec2Model ----
(***************************************************************************)
(* AgentHub (TypeScript): the stateful conversation controller             *)
(* (LLMClient.streamingResponseStateful / clearHistory / getHistory), the  *)
(* event reassembler (LLMClient.concatUniEventsToUniMessage) and the       *)
(* streamingResponse orchestration of the Claude, GPT-5.2 and GLM          *)
(* adapters.                                                               *)
(*                                                                         *)
(* Three specifications share the module:                                  *)
(*   Spec        the controller driving an abstract adapter stream         *)
(*   SpecConcat  the reassembler applied to bounded event lists            *)
(*   SpecAdapter one streamingResponse invocation of an adapter consuming  *)
(*               vendor chunks                                             *)
(***************************************************************************)
EXTENDS Integers, Sequences, FiniteSets, TLC

(***************************************************************************)
(* Values.  A nullable / optional JavaScript value is modelled as a        *)
(* sequence of length 0 (null or undefined) or 1 (the value).              *)
(***************************************************************************)
Null == <<>>

Some(v) == <<v>>

IsNull(x) == x = <<>>

Val(x) == x[1]

\* the value a lookup table gives for a key it does not hold: undefined, which
\* is neither null nor a string
Undefined == <<"undefined", "undefined">>

\* JavaScript truthiness of an optional string: undefined, null and "" are falsy.
Truthy(x) == Len(x) = 1 /\ Val(x) # ""

\* a || b on optional strings
OrElse(x, d) == IF Truthy(x) THEN Val(x) ELSE d

(***************************************************************************)
(* Bounds of the model.                                                    *)
(***************************************************************************)
\* events one adapter stream may yield in the controller specification
MaxEvents == 3

\* streamingResponseStateful calls one controller receives
MaxTurns == 2

\* events in a list handed to the reassembler in SpecConcat
MaxConcatEvents == 3

\* tool calls one vendor stream may carry in SpecAdapter
MaxToolCalls == 2

\* argument fragments the vendor may stream for one tool call
MaxFragments == 2

\* text or reasoning chunks one vendor stream may carry
MaxTextChunks == 1

\* message objects allocated in one behaviour of SpecSnapshot
MaxObjects == 4

\* vendor chunks each of two concurrent invocations consumes
MaxConcurrentChunks == 5

\* vendor chunks the two concurrent invocations consume together
MaxInterleavedChunks == 7

\* tool names in a tool_choice list
MaxToolChoiceNames == 2

\* content items in a message of a request
MaxItems == 2

\* reasoning items (thinking blocks) one vendor stream may carry in SpecRoundTrip
MaxReasoningItems == 2

\* tokens in a model name
MaxNameTokens == 2

\* events of each of two overlapping stateful calls
MaxOverlapEvents == 2

\* content chunks between a "<tool_call>" chunk and its "</tool_call>" chunk
MaxBuffered == 3

\* parts of one Gemini chunk
MaxParts == 2

\* chunks of one Gemini stream
MaxGeminiChunks == 2

(***************************************************************************)
(* Canonical data model (types.ts).                                        *)
(***************************************************************************)
TextItem(t) == [type |-> "text", text |-> t, signature |-> Null]

ThinkingItem(t, sig) == [type |-> "thinking", thinking |-> t, signature |-> sig]

PartialToolCallItem(n, a, id) ==
    [type |-> "partial_tool_call", name |-> n, arguments |-> a, tool_call_id |-> id]

ToolCallItem(n, a, id) ==
    [type |-> "tool_call", name |-> n, arguments |-> a, tool_call_id |-> id]

UsageMetadata(p, t, r, c) ==
    [prompt_tokens |-> p, thoughts_tokens |-> t, response_tokens |-> r, cached_tokens |-> c]

UniEvent(et, items, usage, fr) ==
    [role |-> "assistant", event_type |-> et, content_items |-> items,
     usage_metadata |-> usage, finish_reason |-> fr]

UniMessage(r, items, usage, fr) ==
    [role |-> r, content_items |-> items, usage_metadata |-> usage, finish_reason |-> fr]

UserMessage(t) == UniMessage("user", <<TextItem(t)>>, Null, Null)

(***************************************************************************)
(* Event reassembler: LLMClient.concatUniEventsToUniMessage.               *)
(***************************************************************************)
\* mutant: a fragment replaces the text of the item it continues (= for +=)
ConcatItemAssigning(contentItems, item) ==
    LET n == Len(contentItems)
        hasLast == n > 0
        lastItem == contentItems[n]
    IN  IF item.type = "text"
        THEN IF hasLast /\ lastItem.type = "text"
             THEN [contentItems EXCEPT ![n] = [lastItem EXCEPT !.text = item.text]]
             ELSE IF item.text # "" THEN Append(contentItems, item) ELSE contentItems
        ELSE IF item.type = "thinking"
        THEN IF hasLast /\ lastItem.type = "thinking"
             THEN [contentItems EXCEPT ![n] = [lastItem EXCEPT !.thinking = item.thinking]]
             ELSE IF item.thinking # "" \/ Truthy(item.signature)
                  THEN Append(contentItems, item)
                  ELSE contentItems
        ELSE IF item.type = "partial_tool_call"
        THEN contentItems
        ELSE Append(contentItems, item)

\* mutant: a partial_tool_call item is pushed like any other item
ConcatItemKeepingPartial(contentItems, item) ==
    LET n == Len(contentItems)
        hasLast == n > 0
        lastItem == contentItems[n]
    IN  IF item.type = "text"
        THEN IF hasLast /\ lastItem.type = "text"
             THEN [contentItems EXCEPT ![n] =
                     [lastItem EXCEPT !.text = lastItem.text \o item.text,
                                      !.signature = IF Truthy(item.signature)
                                                    THEN item.signature
                                                    ELSE lastItem.signature]]
             ELSE IF item.text # ""
                  THEN Append(contentItems, item)
                  ELSE contentItems
        ELSE IF item.type = "thinking"
        THEN IF hasLast /\ lastItem.type = "thinking"
             THEN [contentItems EXCEPT ![n] =
                     [lastItem EXCEPT !.thinking = lastItem.thinking \o item.thinking,
                                      !.signature = IF Truthy(item.signature)
                                                    THEN item.signature
                                                    ELSE lastItem.signature]]
             ELSE IF item.thinking # "" \/ Truthy(item.signature)
                  THEN Append(contentItems, item)
                  ELSE contentItems
        ELSE Append(contentItems, item)

\* the inner loop body: fold one content item of an event into contentItems
ConcatItem(contentItems, item) ==
    LET n == Len(contentItems)
        hasLast == n > 0
        lastItem == contentItems[n]
    IN  IF item.type = "text"
        THEN IF hasLast /\ lastItem.type = "text"
             THEN [contentItems EXCEPT ![n] =
                     [lastItem EXCEPT !.text = lastItem.text \o item.text,
                                      !.signature = IF Truthy(item.signature)
                                                    THEN item.signature
                                                    ELSE lastItem.signature]]
             ELSE IF item.text # ""
                  THEN Append(contentItems, item)
                  ELSE contentItems
        ELSE IF item.type = "thinking"
        THEN IF hasLast /\ lastItem.type = "thinking"
             THEN [contentItems EXCEPT ![n] =
                     [lastItem EXCEPT !.thinking = lastItem.thinking \o item.thinking,
                                      !.signature = IF Truthy(item.signature)
                                                    THEN item.signature
                                                    ELSE lastItem.signature]]
             ELSE IF item.thinking # "" \/ Truthy(item.signature)
                  THEN Append(contentItems, item)
                  ELSE contentItems
        ELSE IF item.type = "partial_tool_call"
        THEN contentItems
        ELSE Append(contentItems, item)

RECURSIVE ConcatItems(_, _)
ConcatItems(contentItems, items) ==
    IF items = <<>> THEN contentItems
    ELSE ConcatItems(ConcatItem(contentItems, Head(items)), Tail(items))

\* usageMetadata = event.usage_metadata, once per event of the outer loop
MergeUsage(usageMetadata, event) == event.usage_metadata

\* finishReason = event.finish_reason, once per event of the outer loop
MergeFinish(finishReason, event) == event.finish_reason

\* the outer loop: acc is <<contentItems, usageMetadata, finishReason>>
RECURSIVE ConcatLoop(_, _)
ConcatLoop(acc, events) ==
    IF events = <<>> THEN acc
    ELSE ConcatLoop(<<ConcatItems(acc[1], Head(events).content_items),
                      MergeUsage(acc[2], Head(events)),
                      MergeFinish(acc[3], Head(events))>>,
                    Tail(events))

concatUniEventsToUniMessage(events) ==
    LET acc == ConcatLoop(<<<<>>, Null, Null>>, events)
    IN  UniMessage("assistant", acc[1], acc[2], acc[3])

\* Content items are objects.  The loop mutates lastItem in place
\* (lastItem.text += ...), so what a call does to its argument depends on
\* which object it pushed: pos = <<i, j>> names the item object
\* events[i].content_items[j], Null a fresh object.

\* mutant: contentItems.push(item), the event's own item object
PushedObjectAliasing(pos) == Some(pos)

\* contentItems.push({ ...item }): a fresh object
PushedObject(pos) == Null

\* the positions of the content items of events[i..], in loop order
RECURSIVE PositionsFrom(_, _)
PositionsFrom(events, i) ==
    IF i > Len(events) THEN <<>>
    ELSE [j \in 1..Len(events[i].content_items) |-> <<i, j>>] \o PositionsFrom(events, i + 1)

\* the loops again, on objects: st.events is the argument as the loop leaves
\* it, st.items the contentItems array, st.ref the object that is its last
\* element; an assignment to lastItem writes to that object
RECURSIVE ConcatInPlace(_, _)
ConcatInPlace(st, positions) ==
    IF positions = <<>> THEN st
    ELSE LET pos == Head(positions)
             item == st.events[pos[1]].content_items[pos[2]]
             items == ConcatItem(st.items, item)
             n == Len(items)
             st1 == IF n > Len(st.items)
                    THEN [st EXCEPT !.items = items, !.ref = PushedObject(pos)]
                    ELSE IF n > 0 /\ st.ref # Null
                    THEN [st EXCEPT
                             !.items = items,
                             !.events[Val(st.ref)[1]].content_items[Val(st.ref)[2]] = items[n]]
                    ELSE [st EXCEPT !.items = items]
         IN  ConcatInPlace(st1, Tail(positions))

\* the events argument after a call of concatUniEventsToUniMessage(events)
EventsAfterConcat(events) ==
    ConcatInPlace([events |-> events, items |-> <<>>, ref |-> Null],
                  PositionsFrom(events, 1)).events

(***************************************************************************)
(* Stateful conversation controller: LLMClient (baseClient.ts).            *)
(*                                                                         *)
(* The adapter behind streamingResponse is abstract in the base class: in  *)
(* this specification it yields any sequence of at most MaxEvents events   *)
(* drawn from AdapterEvents.                                               *)
(***************************************************************************)
VARIABLES
    history,        \* this._history
    pc,             \* position of the streamingResponseStateful generator
    message,        \* its message parameter
    traceId,        \* whether its config carries a trace_id
    events,         \* its local events array
    delivered,      \* the events its consumer has received, in order
    adapterYielded, \* the events the adapter's streamingResponse has yielded
    adapterArg,     \* the messages streamingResponse was invoked with
    historyAtCall,  \* history when the call started
    cleared,        \* clearHistory ran since the call started
    turn,           \* calls started so far
    sequential,     \* every earlier turn was consumed, non-empty, and never cleared
    saved           \* the tracer's saveHistory calls of this turn: last history, count

ctlVars == <<history, pc, message, traceId, events, delivered, adapterYielded,
             adapterArg, historyAtCall, cleared, turn, sequential, saved>>

UserMessages == {UserMessage("My name is Alice"), UserMessage("What is my name?")}

DeltaHel == UniEvent("delta", <<TextItem("Hel")>>, Null, Null)

DeltaLo == UniEvent("delta", <<TextItem("lo")>>, Null, Null)

StopTwo == UniEvent("stop", <<>>, Some(UsageMetadata(Null, Null, Some(2), Null)), Some("stop"))

AdapterEvents == {DeltaHel, DeltaLo, StopTwo}

CtlInit ==
    /\ history = <<>>
    /\ pc = "idle"
    /\ message = Null
    /\ traceId = FALSE
    /\ events = <<>>
    /\ delivered = <<>>
    /\ adapterYielded = <<>>
    /\ adapterArg = <<>>
    /\ historyAtCall = <<>>
    /\ cleared = FALSE
    /\ turn = 0
    /\ sequential = TRUE
    /\ saved = [last |-> <<>>, count |-> 0]

\* this._history.push(message)
PushUser(h, m) == Append(h, m)

\* mutant: the adapter is invoked before the user message is pushed
AdapterMessagesBeforePush(h) == SubSeq(h, 1, Len(h) - 1)

\* the messages argument of this.streamingResponse(this._history, config)
AdapterMessages(h) == h

\* events.push(event)
RecordEvent(evs, event) == Append(evs, event)

\* mutant: events without content items are not forwarded
YieldToCallerContentOnly(delivery, event) ==
    IF event.content_items = <<>> THEN delivery ELSE Append(delivery, event)

\* yield event
YieldToCaller(delivery, event) == Append(delivery, event)

\* mutant: the assistant message overwrites the last message instead of following it
PushAssistantOverwriting(h, evs) ==
    IF Len(evs) > 0 /\ Len(h) > 0
    THEN [h EXCEPT ![Len(h)] = concatUniEventsToUniMessage(evs)]
    ELSE h

\* mutant: the guard on an empty event list is missing
PushAssistantUnguarded(h, evs) == Append(h, concatUniEventsToUniMessage(evs))

\* if (events.length > 0) this._history.push(concatUniEventsToUniMessage(events))
PushAssistant(h, evs) ==
    IF Len(evs) > 0 THEN Append(h, concatUniEventsToUniMessage(evs)) ELSE h

\* first next() of the generator: push the user message, invoke the adapter
Start(m, trace) ==
    /\ pc \in {"idle", "done", "failed", "returned"}
    /\ turn < MaxTurns
    /\ history' = PushUser(history, m)
    /\ adapterArg' = AdapterMessages(history')
    /\ historyAtCall' = history
    /\ message' = Some(m)
    /\ traceId' = trace
    /\ events' = <<>>
    /\ delivered' = <<>>
    /\ adapterYielded' = <<>>
    /\ cleared' = FALSE
    /\ turn' = turn + 1
    /\ pc' = "streaming"
    /\ saved' = [last |-> <<>>, count |-> 0]
    /\ UNCHANGED sequential

\* one iteration of the for await loop: the adapter yields, the controller
\* records the event and yields it to its consumer
Forward(e) ==
    /\ pc = "streaming"
    /\ Len(adapterYielded) < MaxEvents
    /\ adapterYielded' = Append(adapterYielded, e)
    /\ events' = RecordEvent(events, e)
    /\ delivered' = YieldToCaller(delivered, e)
    /\ UNCHANGED <<history, pc, message, traceId, adapterArg, historyAtCall,
                   cleared, turn, sequential, saved>>

\* the adapter's sequence is exhausted: reassemble and append
Exhaust ==
    /\ pc = "streaming"
    /\ history' = PushAssistant(history, events)
    /\ sequential' = (sequential /\ ~cleared /\ Len(events) > 0)
    /\ pc' = IF traceId THEN "tracing" ELSE "done"
    /\ UNCHANGED <<message, traceId, events, delivered, adapterYielded, adapterArg,
                   historyAtCall, cleared, turn, saved>>

\* mutant: a failed stream still appends what was reassembled so far
AdapterThrowsKeepingPartial ==
    /\ pc = "streaming"
    /\ history' = PushAssistant(history, events)
    /\ pc' = "failed"
    /\ sequential' = FALSE
    /\ UNCHANGED <<message, traceId, events, delivered, adapterYielded, adapterArg,
                   historyAtCall, cleared, turn, saved>>

\* this.streamingResponse throws (a precondition before the first event, a
\* malformed payload or a transport error later): the for await loop rethrows
\* and the generator ends without running the statements after the loop
AdapterThrows ==
    /\ pc = "streaming"
    /\ pc' = "failed"
    /\ sequential' = FALSE
    /\ UNCHANGED <<history, message, traceId, events, delivered, adapterYielded,
                   adapterArg, historyAtCall, cleared, turn, saved>>

\* the consumer stops iterating (break, or return() on the generator) while
\* the generator is suspended at `yield event`: the generator completes at
\* that yield and the statements after the loop never run
ConsumerReturns ==
    /\ pc = "streaming"
    /\ Len(delivered) > 0
    /\ pc' = "returned"
    /\ sequential' = FALSE
    /\ UNCHANGED <<history, message, traceId, events, delivered, adapterYielded,
                   adapterArg, historyAtCall, cleared, turn, saved>>

\* mutant: the tracer is handed the history of before the call
SaveTraceStale ==
    /\ pc = "tracing"
    /\ saved' = [last |-> historyAtCall, count |-> saved.count + 1]
    /\ pc' = "done"
    /\ UNCHANGED <<history, message, traceId, events, delivered, adapterYielded,
                   adapterArg, historyAtCall, cleared, turn, sequential>>

\* after the dynamic import: tracer.saveHistory(this._history, trace_id, config)
SaveTrace ==
    /\ pc = "tracing"
    /\ saved' = [last |-> history, count |-> saved.count + 1]
    /\ pc' = "done"
    /\ UNCHANGED <<history, message, traceId, events, delivered, adapterYielded,
                   adapterArg, historyAtCall, cleared, turn, sequential>>

\* mutant: clearHistory also ends the call in flight and drops what it delivered
ClearHistoryAborting ==
    /\ history' = <<>>
    /\ cleared' = TRUE
    /\ sequential' = FALSE
    /\ pc' = "done"
    /\ delivered' = <<>>
    /\ UNCHANGED <<message, traceId, events, adapterYielded, adapterArg,
                   historyAtCall, turn, saved>>

\* clearHistory(): this._history = []
ClearHistory ==
    /\ history' = <<>>
    /\ cleared' = TRUE
    /\ sequential' = FALSE
    /\ UNCHANGED <<pc, message, traceId, events, delivered, adapterYielded,
                   adapterArg, historyAtCall, turn, saved>>

\* getHistory(): [...this._history]
getHistory == [i \in 1..Len(history) |-> history[i]]

CtlNext ==
    \/ \E m \in UserMessages, trace \in BOOLEAN : Start(m, trace)
    \/ \E e \in AdapterEvents : Forward(e)
    \/ Exhaust
    \/ AdapterThrows
    \/ ConsumerReturns
    \/ SaveTrace
    \/ ClearHistory

(***************************************************************************)
(* SpecConcat: concatUniEventsToUniMessage applied to bounded event lists. *)
(***************************************************************************)
VARIABLES
    cEvents,   \* the events argument
    cResult,   \* Null before the call, Some(returned message) after it
    cAgain     \* Null, or Some(the message a second call on the same list returned)

concatVars == <<cEvents, cResult, cAgain>>

DeltaThink == UniEvent("delta", <<ThinkingItem("hm", Null)>>, Null, Null)

DeltaSignature == UniEvent("delta", <<ThinkingItem("", Some("sig"))>>, Null, Null)

DeltaEmptyText == UniEvent("delta", <<TextItem("")>>, Null, Null)

DeltaThinkThenText == UniEvent("delta", <<ThinkingItem("hm", Null), TextItem("Hel")>>, Null, Null)

StartToolCall ==
    UniEvent("start", <<PartialToolCallItem("get_weather", <<>>, "call_1")>>, Null, Null)

DeltaToolCall ==
    UniEvent("delta", <<ToolCallItem("get_weather", {"a"}, "call_1")>>, Null, Null)

DeltaImage ==
    UniEvent("delta", <<[type |-> "image_url", image_url |-> "data:image/png;base64,AA"]>>,
             Null, Null)

DeltaToolResult ==
    UniEvent("delta", <<[type |-> "tool_result", result |-> "sunny",
                         tool_call_id |-> "call_1"]>>, Null, Null)

\* a text fragment that carries only a signature
DeltaTextSignature ==
    UniEvent("delta", <<[type |-> "text", text |-> "", signature |-> Some("sig")]>>,
             Null, Null)

\* event A of the usage example: prompt tokens known, response tokens not yet
StartUsage == UniEvent("start", <<>>, Some(UsageMetadata(Some(10), Null, Null, Null)), Null)

\* event B of the usage example: response tokens only
StopUsage == UniEvent("stop", <<>>, Some(UsageMetadata(Null, Null, Some(8), Null)), Some("stop"))

\* a terminal event that carries neither usage nor finish reason
StopBare == UniEvent("stop", <<>>, Null, Null)

ConcatEvents ==
    {DeltaHel, DeltaLo, DeltaThink, DeltaSignature, DeltaEmptyText, DeltaThinkThenText,
     StartToolCall, DeltaToolCall, DeltaImage, DeltaToolResult, DeltaTextSignature,
     StartUsage, StopUsage, StopBare}

ConcatInit ==
    /\ cEvents = <<>>
    /\ cResult = Null
    /\ cAgain = Null

\* the caller collects one more event
Collect(e) ==
    /\ cResult = Null
    /\ Len(cEvents) < MaxConcatEvents
    /\ cEvents' = Append(cEvents, e)
    /\ UNCHANGED <<cResult, cAgain>>

\* the caller calls concatUniEventsToUniMessage(events)
Reassemble ==
    /\ cResult = Null
    /\ cResult' = Some(concatUniEventsToUniMessage(cEvents))
    /\ cEvents' = EventsAfterConcat(cEvents)
    /\ UNCHANGED cAgain

\* the caller calls concatUniEventsToUniMessage(events) a second time
ReassembleAgain ==
    /\ cResult # Null /\ cAgain = Null
    /\ cAgain' = Some(concatUniEventsToUniMessage(cEvents))
    /\ cEvents' = EventsAfterConcat(cEvents)
    /\ UNCHANGED cResult

ConcatNext ==
    \/ \E e \in ConcatEvents : Collect(e)
    \/ Reassemble
    \/ ReassembleAgain

(***************************************************************************)
(* JSON.  An arguments string is a sequence of tokens: "{" and "}" and the *)
(* members "a", "b" (each standing for one "key": value pair).  The texts  *)
(* this tokenisation can spell that JSON.parse accepts are the objects     *)
(* with no or one member; everything else, the empty string included, is   *)
(* a SyntaxError.                                                          *)
(***************************************************************************)
JsonMembers == {"a", "b"}

JSONValid(s) ==
    /\ Len(s) \in {2, 3}
    /\ s[1] = "{"
    /\ s[Len(s)] = "}"
    /\ \A i \in 2..(Len(s) - 1) : s[i] \in JsonMembers

\* JSON.parse(s): the parsed object (its member set), or a thrown SyntaxError
JSONParse(s) ==
    IF JSONValid(s)
    THEN [ok |-> TRUE, value |-> {s[i] : i \in 2..(Len(s) - 1)}]
    ELSE [ok |-> FALSE, value |-> {"SyntaxError"}]

\* JavaScript truthiness of an optional arguments string
TruthyArgs(x) == x # Null /\ Val(x) # <<>>

(***************************************************************************)
(* SpecAdapter: one streamingResponse invocation.                          *)
(***************************************************************************)
VARIABLES
    adapter,          \* "claude", "gpt5_2" or "glm": the class of the client
    chunks,           \* the vendor chunks consumed so far, in order
    out,              \* the events yielded so far, in order
    partialToolCall,  \* the local accumulator {name?, arguments?, tool_call_id?}
    partialUsage,     \* Claude only: {prompt_tokens?, cached_tokens?}
    status            \* "running", "done" (sequence exhausted) or "error" (it threw)

adapterVars == <<adapter, chunks, out, partialToolCall, partialUsage, status>>

EmptyToolCall == [name |-> Null, arguments |-> Null, tool_call_id |-> Null]

EmptyUsage == [prompt_tokens |-> Null, cached_tokens |-> Null]

\* the local state of one invocation, as a record the handlers transform
Local == [out |-> out, partialToolCall |-> partialToolCall,
          partialUsage |-> partialUsage, status |-> status]

\* yield ev
Yield(st, ev) == [st EXCEPT !.out = Append(st.out, ev)]

\* mutant: the exception is swallowed and the loop goes on to the next chunk
ThrowSwallowed(st) == st

\* an exception leaves the generator
Throw(st) == [st EXCEPT !.status = "error"]

\* the synthesized event that carries a fully materialized tool call
ToolCallEvent(name, args, id) ==
    UniEvent("delta", <<ToolCallItem(name, args, id)>>, Null, Null)

\* partialToolCall.x = undefined, three times
ClearToolCall(st) == [st EXCEPT !.partialToolCall = EmptyToolCall]

(***************************************************************************)
(* Claude adapter (claude4_5/client.ts).                                   *)
(***************************************************************************)
ClMessageStart(inputTokens, cacheCreation, cacheRead) ==
    [type |-> "message_start", input_tokens |-> inputTokens,
     cache_creation_input_tokens |-> cacheCreation,
     cache_read_input_tokens |-> cacheRead]

ClToolUseStart(name, id) ==
    [type |-> "content_block_start", block |-> "tool_use", name |-> name, id |-> id]

ClTextStart == [type |-> "content_block_start", block |-> "text", name |-> "", id |-> ""]

ClTextDelta(t) == [type |-> "content_block_delta", delta |-> "text_delta", text |-> t]

ClInputJsonDelta(frag) ==
    [type |-> "content_block_delta", delta |-> "input_json_delta", partial_json |-> frag]

ClBlockStop == [type |-> "content_block_stop"]

ClMessageDelta(stopReason, outputTokens) ==
    [type |-> "message_delta", stop_reason |-> stopReason, output_tokens |-> outputTokens]

ClMessageStop == [type |-> "message_stop"]

\* an event of the allow-list ["text", "thinking", "signature", "input_json"]
ClTextSnapshot == [type |-> "text"]

\* an event whose type the adapter does not know
ClPing == [type |-> "ping"]

\* stopReasonMapping[delta.stop_reason] || "unknown"
ClaudeStopReason(r) ==
    IF r \in {"end_turn", "stop_sequence", "tool_use"} THEN "stop"
    ELSE IF r = "max_tokens" THEN "length"
    ELSE "unknown"

\* Claude4_5Client.transformModelOutputToUniEvent; event_type "throw" stands for
\* the thrown "Unknown output" error
ClaudeTransform(c) ==
    IF c.type = "content_block_start"
    THEN UniEvent("start",
                  IF c.block = "tool_use"
                  THEN <<PartialToolCallItem(c.name, <<>>, c.id)>>
                  ELSE <<>>,
                  Null, Null)
    ELSE IF c.type = "content_block_delta"
    THEN UniEvent("delta",
                  IF c.delta = "thinking_delta" THEN <<ThinkingItem(c.thinking, Null)>>
                  ELSE IF c.delta = "text_delta" THEN <<TextItem(c.text)>>
                  ELSE IF c.delta = "input_json_delta"
                       THEN <<PartialToolCallItem("", c.partial_json, "")>>
                  ELSE IF c.delta = "signature_delta"
                       THEN <<ThinkingItem("", Some(c.signature))>>
                  ELSE <<>>,
                  Null, Null)
    ELSE IF c.type = "content_block_stop"
    THEN UniEvent("stop", <<>>, Null, Null)
    ELSE IF c.type = "message_start"
    THEN UniEvent("start", <<>>,
                  Some(UsageMetadata(
                      Some(c.input_tokens +
                           (IF c.cache_creation_input_tokens = Null THEN 0
                            ELSE Val(c.cache_creation_input_tokens))),
                      Null, Null, c.cache_read_input_tokens)),
                  Null)
    ELSE IF c.type = "message_delta"
    THEN UniEvent("stop", <<>>,
                  Some(UsageMetadata(Null, Null, Some(c.output_tokens), Null)),
                  IF Truthy(c.stop_reason)
                  THEN Some(ClaudeStopReason(Val(c.stop_reason)))
                  ELSE Null)
    ELSE IF c.type = "message_stop"
    THEN UniEvent("stop", <<>>, Null, Null)
    ELSE IF c.type \in {"text", "thinking", "signature", "input_json"}
    THEN UniEvent("unused", <<>>, Null, Null)
    ELSE UniEvent("throw", <<>>, Null, Null)

\* the start branch, per partial_tool_call item: begin the accumulator, yield
RECURSIVE OpenToolCalls(_, _, _)
OpenToolCalls(st, items, uniEvent) ==
    IF items = <<>> THEN st
    ELSE LET item == Head(items)
             st1 == IF item.type = "partial_tool_call"
                    THEN Yield([st EXCEPT !.partialToolCall =
                                   [name |-> Some(item.name), arguments |-> Some(<<>>),
                                    tool_call_id |-> Some(item.tool_call_id)]],
                               uniEvent)
                    ELSE st
         IN  OpenToolCalls(st1, Tail(items), uniEvent)

\* mutant: the fragment replaces the accumulated arguments instead of extending them
AccumulateArgumentsAssigning(st, items) ==
    IF items # <<>> /\ Head(items).type = "partial_tool_call"
    THEN [st EXCEPT !.partialToolCall.arguments = Some(Head(items).arguments)]
    ELSE st

\* the delta branch, per partial_tool_call item: append the fragment
RECURSIVE AccumulateArguments(_, _)
AccumulateArguments(st, items) ==
    IF items = <<>> THEN st
    ELSE LET item == Head(items)
             old == IF TruthyArgs(st.partialToolCall.arguments)
                    THEN Val(st.partialToolCall.arguments) ELSE <<>>
             st1 == IF item.type = "partial_tool_call"
                    THEN [st EXCEPT !.partialToolCall.arguments = Some(old \o item.arguments)]
                    ELSE st
         IN  AccumulateArguments(st1, Tail(items))

\* the stop branch, first half (Claude and GPT-5.2): close the open tool call
CloseToolCall(st) ==
    IF Truthy(st.partialToolCall.name) /\ st.partialToolCall.arguments # Null
    THEN LET parsed == JSONParse(Val(st.partialToolCall.arguments))
         IN  IF parsed.ok
             THEN ClearToolCall(
                      Yield(st, ToolCallEvent(Val(st.partialToolCall.name), parsed.value,
                                              OrElse(st.partialToolCall.tool_call_id, ""))))
             ELSE Throw(st)
    ELSE st

\* the start branch, second half: remember the usage of message_start
HoldUsage(st, uniEvent) ==
    IF uniEvent.usage_metadata # Null
    THEN [st EXCEPT !.partialUsage =
             [prompt_tokens |-> Val(uniEvent.usage_metadata).prompt_tokens,
              cached_tokens |-> Val(uniEvent.usage_metadata).cached_tokens]]
    ELSE st

\* partialUsage.cached_tokens || null
CachedOrNull(x) == IF x # Null /\ Val(x) # 0 THEN x ELSE Null

\* the stop branch, second half: the merged stop event
YieldMergedStop(st, uniEvent) ==
    IF st.partialUsage.prompt_tokens # Null /\ uniEvent.usage_metadata # Null
    THEN [Yield(st, UniEvent("stop", <<>>,
                    Some(UsageMetadata(st.partialUsage.prompt_tokens, Null,
                                       Val(uniEvent.usage_metadata).response_tokens,
                                       CachedOrNull(st.partialUsage.cached_tokens))),
                    uniEvent.finish_reason))
          EXCEPT !.partialUsage = EmptyUsage]
    ELSE st

\* the body of the for await loop of Claude4_5Client.streamingResponse
ClaudeHandle(st, c) ==
    LET uniEvent == ClaudeTransform(c)
    IN  IF uniEvent.event_type = "throw" THEN Throw(st)
        ELSE IF uniEvent.event_type = "start"
        THEN HoldUsage(OpenToolCalls(st, uniEvent.content_items, uniEvent), uniEvent)
        ELSE IF uniEvent.event_type = "delta"
        THEN Yield(AccumulateArguments(st, uniEvent.content_items), uniEvent)
        ELSE IF uniEvent.event_type = "stop"
        THEN LET st1 == CloseToolCall(st)
             IN  IF st1.status = "error" THEN st1 ELSE YieldMergedStop(st1, uniEvent)
        ELSE st

(***************************************************************************)
(* GPT-5.2 adapter (gpt5_2/client.ts).                                     *)
(***************************************************************************)
GpCreated == [type |-> "response.created"]

GpItemAdded(itemType, name, callId) ==
    [type |-> "response.output_item.added", item |-> itemType, name |-> name,
     call_id |-> callId]

GpItemDone(itemType) == [type |-> "response.output_item.done", item |-> itemType]

GpTextDelta(t) == [type |-> "response.output_text.delta", delta |-> t]

GpArgumentsDelta(frag) == [type |-> "response.function_call_arguments.delta", delta |-> frag]

GpArgumentsDone == [type |-> "response.function_call_arguments.done"]

GpCompleted(st, usage) == [type |-> "response.completed", status |-> st, usage |-> usage]

\* an event whose type the adapter does not know
GpFailed == [type |-> "response.failed"]

GptHousekeeping ==
    {"response.created", "response.in_progress", "response.output_text.done",
     "response.reasoning_summary_part.added", "response.reasoning_summary_part.done",
     "response.reasoning_summary_text.done", "response.content_part.added",
     "response.content_part.done"}

\* finishReasonMapping[response.status], with no fallback
GptFinishReason(st) ==
    IF st = "completed" THEN Some("stop")
    ELSE IF st = "incomplete" THEN Some("length")
    ELSE Undefined

\* JSON.stringify({id, encrypted_content}): the JSON text of the object
JsonSignature(id, enc) == "{id:" \o id \o ",encrypted_content:" \o enc \o "}"

\* mutant: the signature keeps the id and loses the encrypted content
GptSignatureIdOnly(c) == Some(JsonSignature(c.id, ""))

\* the signature of a reasoning item: JSON.stringify({id, encrypted_content})
GptSignature(c) == Some(JsonSignature(c.id, c.encrypted_content))

\* GPT5_2Client.transformModelOutputToUniEvent
GptTransform(c) ==
    IF c.type = "response.output_text.delta"
    THEN UniEvent("delta", <<TextItem(c.delta)>>, Null, Null)
    ELSE IF c.type = "response.reasoning_summary_text.delta"
    THEN UniEvent("delta", <<ThinkingItem(c.delta, Null)>>, Null, Null)
    ELSE IF c.type = "response.output_item.added"
    THEN IF c.item = "function_call"
         THEN UniEvent("start", <<PartialToolCallItem(c.name, <<>>, c.call_id)>>, Null, Null)
         ELSE IF c.item = "reasoning"
         THEN UniEvent("delta", <<ThinkingItem("", GptSignature(c))>>, Null, Null)
         ELSE UniEvent("unused", <<>>, Null, Null)
    ELSE IF c.type = "response.output_item.done"
    THEN IF c.item = "reasoning"
         THEN UniEvent("delta", <<ThinkingItem("", GptSignature(c))>>, Null, Null)
         ELSE UniEvent("unused", <<>>, Null, Null)
    ELSE IF c.type = "response.function_call_arguments.delta"
    THEN UniEvent("delta", <<PartialToolCallItem("", c.delta, "")>>, Null, Null)
    ELSE IF c.type = "response.function_call_arguments.done"
    THEN UniEvent("stop", <<>>, Null, Null)
    ELSE IF c.type = "response.completed"
    THEN UniEvent("stop", <<>>,
                  IF c.usage # Null
                  THEN Some(UsageMetadata(Some(Val(c.usage).input_tokens),
                                          Some(Val(c.usage).reasoning_tokens),
                                          Some(Val(c.usage).output_tokens),
                                          Some(Val(c.usage).cached_tokens)))
                  ELSE Null,
                  IF Truthy(c.status) THEN GptFinishReason(Val(c.status)) ELSE Null)
    ELSE IF c.type \in GptHousekeeping
    THEN UniEvent("unused", <<>>, Null, Null)
    ELSE UniEvent("throw", <<>>, Null, Null)

\* if (uniEvent.finish_reason || uniEvent.usage_metadata) yield uniEvent
YieldTerminal(st, uniEvent) ==
    IF Truthy(uniEvent.finish_reason) \/ uniEvent.usage_metadata # Null
    THEN Yield(st, uniEvent)
    ELSE st

\* mutant: an event of type "unused" is yielded like a delta
GptHandleYieldingUnused(st, c) ==
    LET uniEvent == GptTransform(c)
    IN  IF uniEvent.event_type = "throw" THEN Throw(st)
        ELSE IF uniEvent.event_type = "start"
        THEN OpenToolCalls(st, uniEvent.content_items, uniEvent)
        ELSE IF uniEvent.event_type \in {"delta", "unused"}
        THEN Yield(AccumulateArguments(st, uniEvent.content_items), uniEvent)
        ELSE IF uniEvent.event_type = "stop"
        THEN LET st1 == CloseToolCall(st)
             IN  IF st1.status = "error" THEN st1 ELSE YieldTerminal(st1, uniEvent)
        ELSE st

\* the body of the for await loop of GPT5_2Client.streamingResponse
GptHandle(st, c) ==
    LET uniEvent == GptTransform(c)
    IN  IF uniEvent.event_type = "throw" THEN Throw(st)
        ELSE IF uniEvent.event_type = "start"
        THEN OpenToolCalls(st, uniEvent.content_items, uniEvent)
        ELSE IF uniEvent.event_type = "delta"
        THEN Yield(AccumulateArguments(st, uniEvent.content_items), uniEvent)
        ELSE IF uniEvent.event_type = "stop"
        THEN LET st1 == CloseToolCall(st)
             IN  IF st1.status = "error" THEN st1 ELSE YieldTerminal(st1, uniEvent)
        ELSE st

(***************************************************************************)
(* GLM adapter (glm4_7 client, chat-completions chunks).                   *)
(***************************************************************************)
\* one entry of delta.tool_calls
GlmToolCallDelta(name, frag, id) == [name |-> name, arguments |-> frag, id |-> id]

\* a ChatCompletionChunk: choices[0].delta.content / .reasoning_content /
\* .tool_calls, choices[0].finish_reason, usage
GlmChunk(content, reasoning, toolCalls, finishReason, usage) ==
    [content |-> content, reasoning_content |-> reasoning, tool_calls |-> toolCalls,
     finish_reason |-> finishReason, usage |-> usage]

GlmVendorUsage(promptTokens, completionTokens, cached, reasoning) ==
    [prompt_tokens |-> promptTokens, completion_tokens |-> completionTokens,
     cached_tokens |-> cached, reasoning_tokens |-> reasoning]

\* x || null on an optional count
NumberOrNull(x) == IF x # Null /\ Val(x) # 0 THEN x ELSE Null

\* the usage block of GLM5Client.transformModelOutputToUniEvent, before the
\* OpenRouter fix-up (the modelled client talks to the vendor's own endpoint)
GlmUsage(u) ==
    LET cachedTokens == NumberOrNull(u.cached_tokens)
        reasoningTokens == NumberOrNull(u.reasoning_tokens)
    IN  UsageMetadata(
            Some(IF cachedTokens # Null THEN u.prompt_tokens - Val(cachedTokens)
                 ELSE u.prompt_tokens),
            reasoningTokens,
            Some(IF reasoningTokens # Null THEN u.completion_tokens - Val(reasoningTokens)
                 ELSE u.completion_tokens),
            cachedTokens)

\* finishReasonMapping[choice.finish_reason] || "unknown"
GlmFinishReason(r) ==
    IF r \in {"stop", "tool_calls", "content_filter"} THEN "stop"
    ELSE IF r = "length" THEN "length"
    ELSE "unknown"

GlmToolItems(toolCalls) ==
    [i \in 1..Len(toolCalls) |->
        PartialToolCallItem(toolCalls[i].name, toolCalls[i].arguments, toolCalls[i].id)]

\* GLM5Client.transformModelOutputToUniEvent; event_type "null" is the null the
\* code leaves when no branch sets it
GlmTransform(c) ==
    LET textItems == IF Truthy(c.content) THEN <<TextItem(Val(c.content))>> ELSE <<>>
        thinkItems == IF Truthy(c.reasoning_content)
                      THEN <<ThinkingItem(Val(c.reasoning_content), Null)>> ELSE <<>>
        toolItems == IF c.tool_calls # Null THEN GlmToolItems(Val(c.tool_calls)) ELSE <<>>
        t1 == IF Truthy(c.content) \/ Truthy(c.reasoning_content) \/ c.tool_calls # Null
              THEN "delta" ELSE "null"
        t2 == IF Truthy(c.finish_reason) THEN "stop" ELSE t1
        t3 == IF c.usage # Null /\ t2 = "null" THEN "delta" ELSE t2
    IN  UniEvent(t3, textItems \o thinkItems \o toolItems,
                 IF c.usage # Null THEN Some(GlmUsage(Val(c.usage))) ELSE Null,
                 IF Truthy(c.finish_reason)
                 THEN Some(GlmFinishReason(Val(c.finish_reason))) ELSE Null)

\* JSON.parse(partialToolCall.arguments || "{}")
GlmParseArguments(arguments) ==
    JSONParse(IF TruthyArgs(arguments) THEN Val(arguments) ELSE <<"{", "}">>)

\* finish the accumulated tool call: yield its tool_call event, or throw
GlmFlush(st) ==
    LET parsed == GlmParseArguments(st.partialToolCall.arguments)
    IN  IF parsed.ok
        THEN Yield(st, ToolCallEvent(Val(st.partialToolCall.name), parsed.value,
                                     OrElse(st.partialToolCall.tool_call_id, "")))
        ELSE Throw(st)

\* mutant: the new call inherits the arguments accumulated for the previous one
GlmBeginKeepingArguments(st, item) ==
    [st EXCEPT !.partialToolCall =
        [name |-> Some(item.name),
         arguments |-> Some((IF TruthyArgs(st.partialToolCall.arguments)
                             THEN Val(st.partialToolCall.arguments) ELSE <<>>)
                            \o item.arguments),
         tool_call_id |-> Some(item.tool_call_id)]]

\* start a new partial tool call from item
GlmBegin(st, item) ==
    [st EXCEPT !.partialToolCall =
        [name |-> Some(item.name), arguments |-> Some(item.arguments),
         tool_call_id |-> Some(item.tool_call_id)]]

\* the delta branch, per content item
RECURSIVE GlmItems(_, _)
GlmItems(st, items) ==
    IF items = <<>> \/ st.status = "error" THEN st
    ELSE LET item == Head(items)
             old == IF TruthyArgs(st.partialToolCall.arguments)
                    THEN Val(st.partialToolCall.arguments) ELSE <<>>
             st1 == IF item.type # "partial_tool_call" THEN st
                    ELSE IF ~Truthy(st.partialToolCall.name) THEN GlmBegin(st, item)
                    ELSE IF item.name # ""
                    THEN LET flushed == GlmFlush(st)
                         IN  IF flushed.status = "error" THEN flushed
                             ELSE GlmBegin(flushed, item)
                    ELSE [st EXCEPT !.partialToolCall.arguments =
                             Some(old \o item.arguments)]
         IN  GlmItems(st1, Tail(items))

\* the stop branch, first half
GlmCloseToolCall(st) ==
    IF Truthy(st.partialToolCall.name)
    THEN LET flushed == GlmFlush(st)
         IN  IF flushed.status = "error" THEN flushed ELSE ClearToolCall(flushed)
    ELSE st

\* the body of the for await loop of GLM5Client.streamingResponse
GlmHandle(st, c) ==
    LET event == GlmTransform(c)
    IN  IF event.event_type = "delta"
        THEN LET st1 == GlmItems(st, event.content_items)
             IN  IF st1.status = "error" THEN st1 ELSE Yield(st1, event)
        ELSE IF event.event_type = "stop"
        THEN LET st1 == GlmCloseToolCall(st)
             IN  IF st1.status = "error" THEN st1 ELSE YieldTerminal(st1, event)
        ELSE st

(***************************************************************************)
(* The vendor transports: the chunk a vendor may send next, given the      *)
(* chunks it has sent.  Each follows the vendor's streaming protocol; the  *)
(* argument fragments are arbitrary, so an accumulated arguments string    *)
(* may or may not be valid JSON.                                           *)
(***************************************************************************)
Fragments == {<<>>, <<"{">>, <<"a", "}">>, <<"{", "}">>, <<"}">>}

ToolNames == {"get_weather", "get_time"}

\* the vendor gives the k-th tool call of a stream its own id
CallId(k) == IF k = 1 THEN "call_1" ELSE IF k = 2 THEN "call_2" ELSE "call_3"

CountWhere(seq, P(_)) == Cardinality({i \in 1..Len(seq) : P(seq[i])})

\* length of the longest suffix of seq whose elements all satisfy P
TrailingWhere(seq, P(_)) ==
    LET others == {i \in 1..Len(seq) : ~P(seq[i])}
    IN  IF others = {} THEN Len(seq)
        ELSE Len(seq) - (CHOOSE i \in others : \A j \in others : j <= i)

ClIsToolStart(c) == c.type = "content_block_start" /\ c.block = "tool_use"

ClIsTextStart(c) == c.type = "content_block_start" /\ c.block = "text"

ClIsJsonDelta(c) == c.type = "content_block_delta" /\ c.delta = "input_json_delta"

ClIsTextDelta(c) == c.type = "content_block_delta" /\ c.delta = "text_delta"

\* the Messages streaming protocol: message_start, content blocks (start,
\* deltas, stop), message_delta, message_stop
ClaudeVendorNext(cs) ==
    IF cs = <<>>
    THEN {ClMessageStart(10, Null, cr) : cr \in {Some(0), Some(3)}}
    ELSE LET last == cs[Len(cs)]
             inTool == ClIsToolStart(last) \/ ClIsJsonDelta(last)
             inText == ClIsTextStart(last) \/ ClIsTextDelta(last)
             body == last.type \in {"message_start", "content_block_stop"}
         IN  IF inTool
             THEN {ClBlockStop} \cup
                  (IF TrailingWhere(cs, ClIsJsonDelta) < MaxFragments
                   THEN {ClInputJsonDelta(f) : f \in Fragments} ELSE {})
             ELSE IF inText
             THEN {ClBlockStop} \cup
                  (IF ClIsTextStart(last) THEN {ClTextDelta("Hel")} ELSE {ClTextSnapshot})
             ELSE IF last.type = "text" THEN {ClBlockStop}
             ELSE IF body
             THEN {ClMessageDelta(Some(r), 8) : r \in {"end_turn", "tool_use", "refusal"}}
                  \cup {ClPing} \cup
                  (IF CountWhere(cs, ClIsToolStart) < MaxToolCalls
                   THEN {ClToolUseStart(n, CallId(CountWhere(cs, ClIsToolStart) + 1)) :
                            n \in ToolNames}
                   ELSE {}) \cup
                  (IF CountWhere(cs, ClIsTextStart) < MaxTextChunks
                   THEN {ClTextStart} ELSE {})
             ELSE IF last.type = "message_delta" THEN {ClMessageStop}
             ELSE {}

GpIsCallAdded(c) == c.type = "response.output_item.added" /\ c.item = "function_call"

GpIsMessageAdded(c) == c.type = "response.output_item.added" /\ c.item = "message"

GpIsArgumentsDelta(c) == c.type = "response.function_call_arguments.delta"

GpUsage == [input_tokens |-> 10, reasoning_tokens |-> 0, output_tokens |-> 8,
            cached_tokens |-> 0]

\* a usage block of a request whose prompt was partly served from the cache
GpCachedUsage == [input_tokens |-> 10, reasoning_tokens |-> 0, output_tokens |-> 8,
                  cached_tokens |-> 3]

\* the Responses streaming protocol: response.created, output items (added,
\* deltas, done), response.completed
GptVendorNext(cs) ==
    IF cs = <<>> THEN {GpCreated}
    ELSE LET last == cs[Len(cs)]
         IN  IF GpIsCallAdded(last) \/ GpIsArgumentsDelta(last)
             THEN {GpArgumentsDone} \cup
                  (IF TrailingWhere(cs, GpIsArgumentsDelta) < MaxFragments
                   THEN {GpArgumentsDelta(f) : f \in Fragments} ELSE {})
             ELSE IF last.type = "response.function_call_arguments.done"
             THEN {GpItemDone("function_call")}
             ELSE IF GpIsMessageAdded(last) THEN {GpTextDelta("Hel")}
             ELSE IF last.type = "response.output_text.delta" THEN {GpItemDone("message")}
             ELSE IF last.type \in {"response.created", "response.output_item.done"}
             THEN {GpCompleted(Some(st), Some(GpUsage)) :
                      st \in {"completed", "incomplete", "cancelled"}}
                  \cup {GpCompleted(Some("completed"), Some(GpCachedUsage))}
                  \cup {GpFailed} \cup
                  (IF CountWhere(cs, GpIsCallAdded) < MaxToolCalls
                   THEN {GpItemAdded("function_call", n,
                                     CallId(CountWhere(cs, GpIsCallAdded) + 1)) :
                            n \in ToolNames}
                   ELSE {}) \cup
                  (IF CountWhere(cs, GpIsMessageAdded) < MaxTextChunks
                   THEN {GpItemAdded("message", "", "")} ELSE {})
             ELSE {}

GlmIsToolChunk(c) == c.tool_calls # Null

GlmIsToolOpen(c) == c.tool_calls # Null /\ Val(c.tool_calls)[1].name # ""

GlmIsToolContinue(c) == c.tool_calls # Null /\ Val(c.tool_calls)[1].name = ""

GlmIsTextChunk(c) == Truthy(c.content)

GlmIsFinish(c) == c.finish_reason # Null

GlmDeltaChunk(toolCall) == GlmChunk(Null, Null, Some(<<toolCall>>), Null, Null)

GlmSampleUsage == GlmVendorUsage(10, 8, Null, Null)

\* usage with 3 of 10 prompt tokens cached and 0 reasoning tokens
GlmCachedUsage == GlmVendorUsage(10, 8, Some(3), Some(0))

\* the first chunk of a stream: delta {role: "assistant", content: ""}
GlmRoleChunk == GlmChunk(Some(""), Null, Null, Null, Null)

\* the chat-completions streaming protocol: the role chunk, content and tool-call deltas (a
\* delta with a name opens a call, nameless deltas continue it), the chunk
\* with finish_reason, then possibly one usage-only chunk with no choices
GlmVendorNext(cs) ==
    LET last == cs[Len(cs)]
        finished == CountWhere(cs, GlmIsFinish) > 0
    IN  IF cs = <<>> THEN {GlmRoleChunk}
        ELSE IF ~finished
        THEN {GlmChunk(Null, Null, Null, Some(r), u) :
                 r \in {"stop", "tool_calls"}, u \in {Null, Some(GlmSampleUsage)}} \cup
             {GlmChunk(Null, Null, Null, Some("network_error"), Null),
              GlmChunk(Null, Null, Null, Some("stop"), Some(GlmCachedUsage))} \cup
             (IF CountWhere(cs, GlmIsToolOpen) < MaxToolCalls
              THEN {GlmDeltaChunk(GlmToolCallDelta(
                                      n, f, CallId(CountWhere(cs, GlmIsToolOpen) + 1))) :
                       n \in ToolNames, f \in {<<>>, <<"{">>, <<"{", "}">>}}
              ELSE {}) \cup
             (IF cs # <<>> /\ GlmIsToolChunk(last)
                 /\ TrailingWhere(cs, GlmIsToolContinue) + 1 < MaxFragments
              THEN {GlmDeltaChunk(GlmToolCallDelta("", f, "")) : f \in Fragments \ {<<>>}}
              ELSE {}) \cup
             (IF CountWhere(cs, GlmIsTextChunk) < MaxTextChunks
              THEN {GlmChunk(Some("Hel"), Null, Null, Null, Null)}
              ELSE {})
        ELSE IF GlmIsFinish(last) /\ last.usage = Null
        THEN {GlmChunk(Null, Null, Null, Null, Some(GlmSampleUsage))}
        ELSE {}

VendorNext(a, cs) ==
    IF a = "claude" THEN ClaudeVendorNext(cs)
    ELSE IF a = "gpt5_2" THEN GptVendorNext(cs)
    ELSE GlmVendorNext(cs)

\* the chunks the transport of this invocation may deliver next to adapter a
Offered(a) == IF adapter = a THEN VendorNext(a, chunks) ELSE {}

Adapters == {"claude", "gpt5_2", "glm"}

AdapterInit ==
    /\ adapter \in Adapters
    /\ chunks = <<>>
    /\ out = <<>>
    /\ partialToolCall = EmptyToolCall
    /\ partialUsage = EmptyUsage
    /\ status = "running"

\* the loop body ran on chunk c and left the local state st
Consume(c, st) ==
    /\ chunks' = Append(chunks, c)
    /\ out' = st.out
    /\ partialToolCall' = st.partialToolCall
    /\ partialUsage' = st.partialUsage
    /\ status' = st.status
    /\ UNCHANGED adapter

ClaudeStep(c) ==
    /\ adapter = "claude" /\ status = "running"
    /\ c \in Offered("claude")
    /\ Consume(c, ClaudeHandle(Local, c))

GptStep(c) ==
    /\ adapter = "gpt5_2" /\ status = "running"
    /\ c \in Offered("gpt5_2")
    /\ Consume(c, GptHandle(Local, c))

GlmStep(c) ==
    /\ adapter = "glm" /\ status = "running"
    /\ c \in Offered("glm")
    /\ Consume(c, GlmHandle(Local, c))

\* the vendor's sequence is exhausted: the generator returns
EndOfStream ==
    /\ status = "running"
    /\ chunks # <<>>
    /\ VendorNext(adapter, chunks) = {}
    /\ status' = "done"
    /\ UNCHANGED <<adapter, chunks, out, partialToolCall, partialUsage>>

AdapterNext ==
    \/ \E c \in Offered("claude") : ClaudeStep(c)
    \/ \E c \in Offered("gpt5_2") : GptStep(c)
    \/ \E c \in Offered("glm") : GlmStep(c)
    \/ EndOfStream

(***************************************************************************)
(* SpecSnapshot: getHistory and the objects it hands out.  JavaScript      *)
(* arrays and messages are objects: heap holds the message objects, the    *)
(* history array and the array getHistory returned hold references (heap   *)
(* indexes) to them.                                                       *)
(***************************************************************************)
VARIABLES
    heap,         \* the message objects allocated so far
    historyRefs,  \* this._history: references to message objects
    returned,     \* Null, or Some(the array a getHistory() call returned)
    sent          \* the messages the adapter was sent on the latest turn

snapVars == <<heap, historyRefs, returned, sent>>

\* the messages an array of references denotes
Deref(h, refs) == [i \in 1..Len(refs) |-> h[refs[i]]]

AssistantHello == UniMessage("assistant", <<TextItem("Hello")>>, Null, Some("stop"))

SnapInit ==
    /\ heap = <<>>
    /\ historyRefs = <<>>
    /\ returned = Null
    /\ sent = <<>>

\* a complete streamingResponseStateful(m) turn: push m, send the history to
\* the adapter, push the reassembled assistant message
SnapTurn(m) ==
    /\ Len(heap) + 2 <= MaxObjects
    /\ heap' = heap \o <<m, AssistantHello>>
    /\ sent' = Deref(heap', Append(historyRefs, Len(heap) + 1))
    /\ historyRefs' = historyRefs \o <<Len(heap) + 1, Len(heap) + 2>>
    /\ UNCHANGED returned

\* h = getHistory(): [...this._history], a new array of the same references
SnapGetHistory ==
    /\ returned' = Some(historyRefs)
    /\ UNCHANGED <<heap, historyRefs, sent>>

\* the caller pushes a message of its own on the returned array: h.push(m)
CallerPush(m) ==
    /\ returned # Null
    /\ Len(heap) + 1 <= MaxObjects
    /\ heap' = Append(heap, m)
    /\ returned' = Some(Append(Val(returned), Len(heap) + 1))
    /\ UNCHANGED <<historyRefs, sent>>

\* the caller removes the last message of the returned array: h.pop()
CallerPop ==
    /\ returned # Null /\ Val(returned) # <<>>
    /\ returned' = Some(SubSeq(Val(returned), 1, Len(Val(returned)) - 1))
    /\ UNCHANGED <<heap, historyRefs, sent>>

\* the caller modifies a content item of a returned message:
\* h[i].content_items[0].text = "edited"
CallerEdit(i) ==
    /\ returned # Null /\ i \in 1..Len(Val(returned))
    /\ heap' = [heap EXCEPT ![Val(returned)[i]].content_items[1].text = "edited"]
    /\ UNCHANGED <<historyRefs, returned, sent>>

SnapNext ==
    \/ \E m \in UserMessages : SnapTurn(m)
    \/ SnapGetHistory
    \/ \E m \in UserMessages : CallerPush(m)
    \/ CallerPop
    \/ \E i \in 1..MaxObjects : CallerEdit(i)

(***************************************************************************)
(* SpecConcurrent: two streamingResponse invocations on one adapter        *)
(* instance (the class in adapter), interleaved at vendor-chunk            *)
(* granularity.  Each invocation has its own vendor stream; the local      *)
(* objects partialToolCall and partialUsage live in accumulators, under    *)
(* the key of the scope that created them.                                 *)
(***************************************************************************)
VARIABLES
    invocations,   \* per invocation: the chunks consumed, the events yielded, the status
    accumulators   \* per scope key: partialToolCall and partialUsage

concVars == <<invocations, accumulators>>

Invocations == {1, 2}

\* mutant: the accumulators are fields of the client instance
AccumulatorOfInstance(i) == 1

\* const partialToolCall = {...}; const partialUsage = {...}: evaluated in the
\* body of the generator, one object per invocation
AccumulatorOf(i) == i

ConcInit ==
    /\ invocations = [i \in Invocations |-> [chunks |-> <<>>, out |-> <<>>,
                                             status |-> "running"]]
    /\ accumulators = [i \in Invocations |-> [partialToolCall |-> EmptyToolCall,
                                              partialUsage |-> EmptyUsage]]

\* the body of the for await loop of adapter a
HandleOf(a, st, c) ==
    IF a = "claude" THEN ClaudeHandle(st, c)
    ELSE IF a = "gpt5_2" THEN GptHandle(st, c)
    ELSE GlmHandle(st, c)

\* the local state invocation i sees
LocalOf(i) ==
    [out |-> invocations[i].out,
     partialToolCall |-> accumulators[AccumulatorOf(i)].partialToolCall,
     partialUsage |-> accumulators[AccumulatorOf(i)].partialUsage,
     status |-> invocations[i].status]

\* invocation i consumes the next chunk of its own vendor stream
ConcStep(i, c) ==
    /\ invocations[i].status = "running"
    /\ Len(invocations[i].chunks) < MaxConcurrentChunks
    /\ Len(invocations[1].chunks) + Len(invocations[2].chunks) < MaxInterleavedChunks
    /\ c \in VendorNext(adapter, invocations[i].chunks)
    /\ LET st == HandleOf(adapter, LocalOf(i), c)
       IN  /\ invocations' = [invocations EXCEPT ![i] =
                                 [chunks |-> Append(invocations[i].chunks, c),
                                  out |-> st.out, status |-> st.status]]
           /\ accumulators' = [accumulators EXCEPT ![AccumulatorOf(i)] =
                                  [partialToolCall |-> st.partialToolCall,
                                   partialUsage |-> st.partialUsage]]

\* the vendor stream of invocation i is exhausted: its generator returns
ConcEnd(i) ==
    /\ invocations[i].status = "running"
    /\ invocations[i].chunks # <<>>
    /\ VendorNext(adapter, invocations[i].chunks) = {}
    /\ invocations' = [invocations EXCEPT ![i].status = "done"]
    /\ UNCHANGED accumulators

ConcNext ==
    \/ \E i \in Invocations :
          \E c \in VendorNext(adapter, invocations[i].chunks) : ConcStep(i, c)
    \/ \E i \in Invocations : ConcEnd(i)

(***************************************************************************)
(* Request preparation: transformUniConfigToModelConfig of the five        *)
(* adapters.  A UniConfig is a record of optional fields (Null: the field  *)
(* is undefined); temperatures are in tenths (10 is 1.0).  A vendor config *)
(* is a function from the keys it holds to their values, nested keys       *)
(* spelled with a dot ("reasoning.effort").  A converted tool choice is a  *)
(* record of the vendor's mode and the tool names it restricts to.         *)
(***************************************************************************)
RequestAdapters == {"claude", "gpt5_2", "glm", "qwen3", "gemini3"}

ToolChoiceOf(kind, names) == [kind |-> kind, names |-> names]

AllChoiceNames == <<"get_weather", "get_time", "get_news", "get_date">>

\* string[] values of tool_choice
ToolChoiceLists ==
    {ToolChoiceOf("list", SubSeq(AllChoiceNames, 1, n)) : n \in 1..MaxToolChoiceNames}

ToolChoices ==
    {ToolChoiceOf(k, <<>>) : k \in {"auto", "required"}} \cup ToolChoiceLists

WeatherTools == <<"get_weather", "get_time">>

UniConfigs ==
    [max_tokens : {Null, Some(8192)},
     temperature : {Null, Some(7), Some(10)},
     tools : {Null, Some(WeatherTools)},
     thinking_summary : {Null, Some(TRUE)},
     thinking_level : {Null, Some("low")},
     tool_choice : {Null} \cup {Some(tc) : tc \in ToolChoices},
     system_prompt : {Null, Some("Be brief")},
     prompt_caching : {Null, Some("enable"), Some("disable"), Some("enhance")}]

\* a transform returned config / a transform threw error
Returned(config) == [ok |-> TRUE, config |-> config, error |-> ""]

Thrown(error) == [ok |-> FALSE, config |-> <<>>, error |-> error]

\* config[key] = value
Put(config, key, value) == (key :> value) @@ config

\* if (field !== undefined) config[key] = field
PutIfDefined(config, key, field) ==
    IF field # Null THEN Put(config, key, Val(field)) ELSE config

\* the vendor form of a tool choice
VendorChoice(mode, names) == [mode |-> mode, names |-> names]

\* Claude4_5Client._convertToolChoice
ClaudeConvertToolChoice(tc) ==
    IF tc.kind = "list"
    THEN IF Len(tc.names) > 1 THEN Thrown("Claude supports only one tool choice.")
         ELSE Returned(VendorChoice("any", <<tc.names[1]>>))
    ELSE IF tc.kind = "none" THEN Returned(VendorChoice("none", <<>>))
    ELSE IF tc.kind = "auto" THEN Returned(VendorChoice("auto", <<>>))
    ELSE Returned(VendorChoice("any", <<>>))

\* Claude4_5Client._convertThinkingLevelToBudget
ClaudeThinkingBudget(level) ==
    IF level = "none" THEN [type |-> "disabled", budget_tokens |-> 0]
    ELSE [type |-> "enabled",
          budget_tokens |-> IF level = "low" THEN 1024
                            ELSE IF level = "medium" THEN 4096 ELSE 16384]

\* Claude4_5Client.transformUniConfigToModelConfig
ClaudeConfig(c) ==
    LET c0 == ("model" :> "claude") @@ ("betas" :> <<"interleaved-thinking-2025-05-14">>)
        c1 == PutIfDefined(c0, "system", c.system_prompt)
        c2 == Put(c1, "max_tokens", IF c.max_tokens # Null THEN Val(c.max_tokens) ELSE 32768)
        c3 == PutIfDefined(c2, "temperature", c.temperature)
        c4 == IF c.thinking_level # Null
              THEN Put(Put(c3, "temperature", 10),
                       "thinking", ClaudeThinkingBudget(Val(c.thinking_level)))
              ELSE c3
        c5 == PutIfDefined(c4, "tools", c.tools)
        choice == IF c.tool_choice # Null THEN ClaudeConvertToolChoice(Val(c.tool_choice))
                  ELSE Returned(<<>>)
    IN  IF ~choice.ok THEN choice
        ELSE Returned(IF c.tool_choice # Null THEN Put(c5, "tool_choice", choice.config)
                      ELSE c5)

\* GPT5_2Client._convertToolChoice
GptConvertToolChoice(tc) ==
    IF tc.kind = "list" THEN VendorChoice("required", tc.names)
    ELSE VendorChoice(tc.kind, <<>>)

\* GPT5_2Client.transformUniConfigToModelConfig
GptConfig(c) ==
    LET c0 == ("model" :> "gpt-5.2") @@ ("store" :> FALSE)
                  @@ ("include" :> <<"reasoning.encrypted_content">>)
        c1 == PutIfDefined(c0, "instructions", c.system_prompt)
        c2 == PutIfDefined(c1, "max_output_tokens", c.max_tokens)
        c3 == IF c.thinking_level # Null
              THEN LET r == Put(c2, "reasoning.effort", Val(c.thinking_level))
                   IN  IF c.thinking_summary = Some(TRUE)
                       THEN Put(r, "reasoning.summary", "concise") ELSE r
              ELSE c2
        c4 == PutIfDefined(c3, "tools", c.tools)
        c5 == IF c.tool_choice # Null
              THEN Put(c4, "tool_choice", GptConvertToolChoice(Val(c.tool_choice)))
              ELSE c4
    IN  IF c.temperature # Null /\ Val(c.temperature) # 10
        THEN Thrown("GPT-5.2 does not support setting temperature.")
        ELSE Returned(c5)

\* GLM5Client._convertToolChoice and Qwen3Client._convertToolChoice
AutoOnlyToolChoice(tc, error) ==
    IF tc.kind = "auto" THEN Returned(VendorChoice("auto", <<>>)) ELSE Thrown(error)

\* the tail shared by the GLM and Qwen3 transforms: tools, tool_choice, and the
\* prompt_caching check
ChatCompletionsTail(c, base, choiceError, cachingError) ==
    LET c1 == PutIfDefined(base, "tools", c.tools)
        choice == IF c.tool_choice # Null
                  THEN AutoOnlyToolChoice(Val(c.tool_choice), choiceError)
                  ELSE Returned(<<>>)
    IN  IF ~choice.ok THEN choice
        ELSE IF c.prompt_caching # Null /\ Val(c.prompt_caching) # "enable"
        THEN Thrown(cachingError)
        ELSE Returned(IF c.tool_choice # Null THEN Put(c1, "tool_choice", choice.config)
                      ELSE c1)

\* GLM5Client.transformUniConfigToModelConfig
GlmConfig(c) ==
    LET c0 == ("model" :> "glm") @@ ("stream" :> TRUE) @@ ("extra_body.tool_stream" :> TRUE)
        c1 == PutIfDefined(c0, "max_tokens", c.max_tokens)
        c2 == PutIfDefined(c1, "temperature", c.temperature)
        c3 == IF c.thinking_level # Null
              THEN Put(c2, "extra_body.thinking",
                       IF Val(c.thinking_level) = "none" THEN "disabled" ELSE "enabled")
              ELSE c2
    IN  ChatCompletionsTail(c, c3, "GLM only supports \"auto\" for tool_choice.",
                            "prompt_caching must be ENABLE for GLM-5.")

\* Qwen3Client.transformUniConfigToModelConfig
Qwen3Config(c) ==
    LET c0 == ("model" :> "qwen3") @@ ("stream" :> TRUE)
        c1 == PutIfDefined(c0, "max_tokens", c.max_tokens)
        c2 == PutIfDefined(c1, "temperature", c.temperature)
    IN  ChatCompletionsTail(c, c2, "Qwen3 only supports 'auto' for tool_choice.",
                            "prompt_caching must be ENABLE for Qwen3.")

\* Gemini3Client._convertToolChoice
GeminiConvertToolChoice(tc) ==
    IF tc.kind = "list" THEN VendorChoice("ANY", tc.names)
    ELSE IF tc.kind = "none" THEN VendorChoice("NONE", <<>>)
    ELSE IF tc.kind = "auto" THEN VendorChoice("AUTO", <<>>)
    ELSE VendorChoice("ANY", <<>>)

\* Gemini3Client._convertThinkingLevel
GeminiConvertThinkingLevel(level) ==
    IF ~Truthy(level) THEN Null
    ELSE IF Val(level) = "none" THEN Some("MINIMAL")
    ELSE IF Val(level) = "low" THEN Some("LOW")
    ELSE IF Val(level) = "medium" THEN Some("MEDIUM")
    ELSE Some("HIGH")

\* Gemini3Client.transformUniConfigToModelConfig (a key whose value is
\* undefined is a key the request does not carry; the config without keys
\* stands for the undefined the code returns for it)
GeminiConfig(c) ==
    LET c1 == PutIfDefined(<<>>, "systemInstruction", c.system_prompt)
        c2 == PutIfDefined(c1, "maxOutputTokens", c.max_tokens)
        c3 == PutIfDefined(c2, "temperature", c.temperature)
        c4 == PutIfDefined(PutIfDefined(c3, "thinkingConfig.includeThoughts",
                                        c.thinking_summary),
                           "thinkingConfig.thinkingLevel",
                           GeminiConvertThinkingLevel(c.thinking_level))
        c5 == IF c.tools # Null
              THEN LET t == Put(c4, "tools", Val(c.tools))
                   IN  IF c.tool_choice # Null
                       THEN Put(t, "toolConfig.functionCallingConfig",
                                GeminiConvertToolChoice(Val(c.tool_choice)))
                       ELSE t
              ELSE c4
    IN  IF c.prompt_caching # Null /\ Val(c.prompt_caching) # "enable"
        THEN Thrown("prompt_caching must be ENABLE for Gemini 3.")
        ELSE Returned(c5)

\* transformUniConfigToModelConfig of adapter a
ConfigOf(a, c) ==
    IF a = "claude" THEN ClaudeConfig(c)
    ELSE IF a = "gpt5_2" THEN GptConfig(c)
    ELSE IF a = "glm" THEN GlmConfig(c)
    ELSE IF a = "qwen3" THEN Qwen3Config(c)
    ELSE GeminiConfig(c)

(***************************************************************************)
(* transformUniMessageToModelInput of the GPT-5.2 and Claude adapters: the *)
(* vendor input, or a thrown error (ok = FALSE).                           *)
(***************************************************************************)
ReasoningIds == {"rs_1", "rs_2"}

EncryptedContents == {"", "enc_1", "enc_2"}

\* JSON.parse(signatureStr) followed by the reads of .id and .encrypted_content;
\* an absent signature is parsed as '{}'
GptParseSignature(sig) ==
    LET texts == {<<i, e>> \in ReasoningIds \X EncryptedContents :
                     JsonSignature(i, e) = Val(sig)}
    IN  IF sig = Null
        THEN [ok |-> TRUE, id |-> Undefined, encrypted_content |-> Undefined]
        ELSE IF texts # {}
        THEN LET p == CHOOSE q \in texts : TRUE
             IN  [ok |-> TRUE, id |-> Some(p[1]), encrypted_content |-> Some(p[2])]
        ELSE [ok |-> FALSE, id |-> Undefined, encrypted_content |-> Undefined]

\* JSON.stringify of a parsed arguments object
JSONStringify(value) ==
    IF value = {} THEN <<"{", "}">> ELSE <<"{", CHOOSE m \in value : TRUE, "}">>

\* a property read that yields undefined when the object lacks the property
Read(item, field) == IF field \in DOMAIN item THEN Some(item[field]) ELSE Undefined

\* one iteration of the item loop of GPT5_2Client.transformUniMessageToModelInput:
\* what it pushes onto inputList (direct) and onto contentItems (content)
GptItemInput(role, item) ==
    IF item.type = "text"
    THEN [ok |-> TRUE, direct |-> <<>>,
          content |-> <<[type |-> IF role = "user" THEN "input_text" ELSE "output_text",
                         text |-> item.text]>>]
    ELSE IF item.type = "image_url"
    THEN [ok |-> TRUE, direct |-> <<>>,
          content |-> <<[type |-> "input_image", image_url |-> item.image_url]>>]
    ELSE IF item.type = "thinking"
    THEN LET signature == GptParseSignature(item.signature)
         IN  [ok |-> signature.ok,
              direct |-> <<[type |-> "reasoning", id |-> signature.id,
                            summary |-> IF item.thinking # "" THEN <<item.thinking>>
                                        ELSE <<>>,
                            encrypted_content |-> signature.encrypted_content]>>,
              content |-> <<>>]
    ELSE IF item.type = "tool_call"
    THEN [ok |-> TRUE,
          direct |-> <<[type |-> "function_call", call_id |-> item.tool_call_id,
                        name |-> item.name, arguments |-> JSONStringify(item.arguments)]>>,
          content |-> <<>>]
    ELSE IF item.type = "tool_result"
    THEN [ok |-> item.tool_call_id # "",
          direct |-> <<[type |-> "function_call_output", call_id |-> item.tool_call_id,
                        output |-> Read(item, "result")]>>,
          content |-> <<>>]
    ELSE [ok |-> FALSE, direct |-> <<>>, content |-> <<>>]

RECURSIVE GptItemsInput(_, _)
GptItemsInput(role, items) ==
    IF items = <<>> THEN [ok |-> TRUE, direct |-> <<>>, content |-> <<>>]
    ELSE LET h == GptItemInput(role, Head(items))
             r == GptItemsInput(role, Tail(items))
         IN  IF h.ok /\ r.ok
             THEN [ok |-> TRUE, direct |-> h.direct \o r.direct,
                   content |-> h.content \o r.content]
             ELSE [ok |-> FALSE, direct |-> <<>>, content |-> <<>>]

\* GPT5_2Client.transformUniMessageToModelInput
RECURSIVE GptModelInput(_)
GptModelInput(messages) ==
    IF messages = <<>> THEN [ok |-> TRUE, input |-> <<>>]
    ELSE LET msg == Head(messages)
             h == GptItemsInput(msg.role, msg.content_items)
             r == GptModelInput(Tail(messages))
         IN  IF h.ok /\ r.ok
             THEN [ok |-> TRUE,
                   input |-> h.direct \o
                             (IF h.content # <<>>
                              THEN <<[role |-> msg.role, content |-> h.content]>>
                              ELSE <<>>) \o r.input]
             ELSE [ok |-> FALSE, input |-> <<>>]

\* the image URLs of the "data:<type>;base64,<data>" form
DataUrls == {"data:image/png;base64,AA"}

\* an image block from a URL
ClaudeImage(url) ==
    [type |-> "image", source |-> IF url \in DataUrls THEN "base64" ELSE "url"]

\* one iteration of the item loop of Claude4_5Client.transformUniMessageToModelInput
ClaudeItemInput(item) ==
    IF item.type = "text"
    THEN [ok |-> TRUE, blocks |-> <<[type |-> "text", text |-> item.text]>>]
    ELSE IF item.type = "image_url"
    THEN [ok |-> TRUE, blocks |-> <<ClaudeImage(item.image_url)>>]
    ELSE IF item.type = "thinking"
    THEN [ok |-> TRUE,
          blocks |-> <<[type |-> "thinking", thinking |-> item.thinking,
                        signature |-> item.signature]>>]
    ELSE IF item.type = "tool_call"
    THEN [ok |-> TRUE,
          blocks |-> <<[type |-> "tool_use", id |-> item.tool_call_id, name |-> item.name,
                        input |-> item.arguments]>>]
    ELSE IF item.type = "tool_result"
    THEN [ok |-> item.tool_call_id # "",
          blocks |-> <<[type |-> "tool_result",
                        content |-> <<[type |-> "text", text |-> Read(item, "text")]>> \o
                                    (IF "images" \in DOMAIN item
                                     THEN [i \in 1..Len(item.images) |->
                                              ClaudeImage(item.images[i])]
                                     ELSE <<>>),
                        tool_use_id |-> item.tool_call_id]>>]
    ELSE [ok |-> FALSE, blocks |-> <<>>]

RECURSIVE ClaudeItemsInput(_)
ClaudeItemsInput(items) ==
    IF items = <<>> THEN [ok |-> TRUE, blocks |-> <<>>]
    ELSE LET h == ClaudeItemInput(Head(items))
             r == ClaudeItemsInput(Tail(items))
         IN  IF h.ok /\ r.ok THEN [ok |-> TRUE, blocks |-> h.blocks \o r.blocks]
             ELSE [ok |-> FALSE, blocks |-> <<>>]

\* Claude4_5Client.transformUniMessageToModelInput
RECURSIVE ClaudeModelInput(_)
ClaudeModelInput(messages) ==
    IF messages = <<>> THEN [ok |-> TRUE, input |-> <<>>]
    ELSE LET msg == Head(messages)
             h == ClaudeItemsInput(msg.content_items)
             r == ClaudeModelInput(Tail(messages))
         IN  IF h.ok /\ r.ok
             THEN [ok |-> TRUE,
                   input |-> <<[role |-> msg.role, content |-> h.blocks]>> \o r.input]
             ELSE [ok |-> FALSE, input |-> <<>>]

\* mutant: no block is marked
ClaudeMarkCacheNever(config, input) == input

\* the prompt caching block of Claude4_5Client.streamingResponse: the last
\* content block of the last user message gets cache_control; a last user
\* message without content makes the assignment throw, which is ignored
ClaudeMarkCache(config, input) ==
    LET promptCaching == IF Truthy(config.prompt_caching) THEN Val(config.prompt_caching)
                         ELSE "enable"
        users == {i \in 1..Len(input) : input[i].role = "user"}
        lastUser == CHOOSE i \in users : \A j \in users : j <= i
        n == Len(input[lastUser].content)
    IN  IF promptCaching # "disable" /\ Len(input) > 0 /\ users # {} /\ n > 0
        THEN [input EXCEPT ![lastUser].content[n] =
                 Put(@, "cache_control",
                     [type |-> "ephemeral",
                      ttl |-> IF promptCaching = "enhance" THEN "1h" ELSE "5m"])]
        ELSE input

(***************************************************************************)
(* SpecRequest: streamingResponse from its call to the vendor connection.  *)
(* In all five adapters the generator first transforms the config, then    *)
(* the messages, then opens the vendor stream.                             *)
(***************************************************************************)
VARIABLES
    reqAdapter,       \* the class of the client
    reqConfig,        \* options.config
    reqMessages,      \* options.messages
    reqPc,            \* position of the generator
    reqVendorConfig,  \* the value transformUniConfigToModelConfig returned
    reqError,         \* Null, or Some(message of the error that left the generator)
    connected,        \* the vendor's create/stream call was issued
    reqSent           \* Null, or Some(the messages of the request), for the Claude
                      \* and GPT-5.2 adapters

reqVars == <<reqAdapter, reqConfig, reqMessages, reqPc, reqVendorConfig, reqError,
             connected, reqSent>>

ToolResultItem(text, id, images) ==
    [type |-> "tool_result", text |-> text, tool_call_id |-> id, images |-> images]

UserAsks == UserMessage("What is the weather?")

AssistantCalls ==
    UniMessage("assistant", <<ToolCallItem("get_weather", {"a"}, "call_1")>>, Null,
               Some("stop"))

ToolAnswers(id, images) ==
    UniMessage("user", <<ToolResultItem("sunny", id, images)>>, Null, Null)

\* a user message of two content items
UserShows ==
    UniMessage("user",
               <<TextItem("What is this?"),
                 [type |-> "image_url", image_url |-> "data:image/png;base64,AA"]>>,
               Null, Null)

\* a user message without content
UserSilent == UniMessage("user", <<>>, Null, Null)

\* an assistant message whose text precedes its tool call
AssistantSaysThenCalls ==
    UniMessage("assistant",
               <<TextItem("Let me check"), ToolCallItem("get_weather", {"a"}, "call_1")>>,
               Null, Some("stop"))

MessageLists ==
    {<<UserAsks>>, <<UserShows>>, <<UserAsks, AssistantCalls, UserSilent>>,
     <<UserAsks, AssistantSaysThenCalls, ToolAnswers("call_1", <<>>)>>} \cup
    {<<UserAsks, AssistantCalls, ToolAnswers(id, images)>> :
        id \in {"call_1", "", "call_9"}, images \in {<<>>, <<"https://example.com/sky.png">>}}

\* the error transformUniMessageToModelInput of adapter a throws on item, "" if none
ItemError(a, item) ==
    IF item.type = "tool_result"
    THEN IF item.tool_call_id = "" THEN "tool_call_id is required for tool result."
         ELSE IF a = "glm" /\ Len(item.images) > 0
         THEN "GLM does not support images in tool results."
         ELSE ""
    ELSE IF item.type = "image_url" /\ a = "qwen3" THEN "Qwen3 does not support image_url."
    ELSE IF item.type \in {"text", "image_url", "thinking", "tool_call"} THEN ""
    ELSE "Unknown item"

\* mutant: the message transform accepts everything
NoMessagesError(a, msgs) == Null

\* the error transformUniMessageToModelInput of adapter a throws on msgs: that of
\* the first offending item in message and item order, Null if it returns
MessagesError(a, msgs) ==
    LET bad == {p \in {<<i, j>> : i \in 1..Len(msgs), j \in 1..MaxItems} :
                   /\ p[2] <= Len(msgs[p[1]].content_items)
                   /\ ItemError(a, msgs[p[1]].content_items[p[2]]) # ""}
    IN  IF bad = {} THEN Null
        ELSE LET first == CHOOSE p \in bad :
                             \A q \in bad : p[1] < q[1] \/ (p[1] = q[1] /\ p[2] <= q[2])
             IN  Some(ItemError(a, msgs[first[1]].content_items[first[2]]))

EmptyConfig ==
    [max_tokens |-> Null, temperature |-> Null, tools |-> Null, thinking_summary |-> Null,
     thinking_level |-> Null, tool_choice |-> Null, system_prompt |-> Null,
     prompt_caching |-> Null]

\* the one request of the specifications that are not about requests
ReqFixed ==
    /\ reqAdapter = "claude"
    /\ reqConfig = EmptyConfig
    /\ reqMessages = <<UserAsks>>

ReqInit ==
    /\ reqAdapter \in RequestAdapters
    /\ reqConfig \in UniConfigs
    /\ reqMessages \in MessageLists
    /\ reqPc = "called"
    /\ reqVendorConfig = <<>>
    /\ reqError = Null
    /\ connected = FALSE
    /\ reqSent = Null

\* const vendorConfig = this.transformUniConfigToModelConfig(options.config)
TransformConfig ==
    /\ reqPc = "called"
    /\ LET r == ConfigOf(reqAdapter, reqConfig)
       IN  IF r.ok
           THEN /\ reqVendorConfig' = r.config
                /\ reqPc' = "configured"
                /\ UNCHANGED reqError
           ELSE /\ reqError' = Some(r.error)
                /\ reqPc' = "raised"
                /\ UNCHANGED reqVendorConfig
    /\ UNCHANGED <<reqAdapter, reqConfig, reqMessages, connected, reqSent>>

\* const vendorMessages = this.transformUniMessageToModelInput(options.messages)
TransformMessages ==
    /\ reqPc = "configured"
    /\ LET e == MessagesError(reqAdapter, reqMessages)
       IN  IF e = Null
           THEN reqPc' = "ready" /\ UNCHANGED reqError
           ELSE reqPc' = "raised" /\ reqError' = e
    /\ UNCHANGED <<reqAdapter, reqConfig, reqMessages, reqVendorConfig, connected, reqSent>>

\* const stream = await this._client...create / stream(params)
Connect ==
    /\ reqPc = "ready"
    /\ connected' = TRUE
    /\ reqSent' = IF reqAdapter = "claude"
                  THEN Some(ClaudeMarkCache(reqConfig, ClaudeModelInput(reqMessages).input))
                  ELSE IF reqAdapter = "gpt5_2"
                  THEN Some(GptModelInput(reqMessages).input)
                  ELSE Null
    /\ reqPc' = "streaming"
    /\ UNCHANGED <<reqAdapter, reqConfig, reqMessages, reqVendorConfig, reqError>>

\* the vendor or the transport fails after the connection was opened
VendorFails ==
    /\ reqPc = "streaming"
    /\ reqError' = Some("vendor error")
    /\ reqPc' = "raised"
    /\ UNCHANGED <<reqAdapter, reqConfig, reqMessages, reqVendorConfig, connected, reqSent>>

\* the vendor's stream ends and the generator returns
StreamEnds ==
    /\ reqPc = "streaming"
    /\ reqPc' = "done"
    /\ UNCHANGED <<reqAdapter, reqConfig, reqMessages, reqVendorConfig, reqError,
                   connected, reqSent>>

ReqNext ==
    \/ TransformConfig
    \/ TransformMessages
    \/ Connect
    \/ VendorFails
    \/ StreamEnds

(***************************************************************************)
(* SpecRoundTrip: one turn of the Claude or GPT-5.2 adapter whose stream   *)
(* carries reasoning, then the vendor input of the next turn, built from   *)
(* the history as streamingResponseStateful keeps it.                      *)
(***************************************************************************)
VARIABLES
    rtAdapter,  \* the class of the client
    rtChunks,   \* the vendor chunks consumed in the first turn
    rtLocal,    \* the local state of the first turn's streamingResponse
    rtInput     \* Null, or Some(result of the next turn's message transform)

rtVars == <<rtAdapter, rtChunks, rtLocal, rtInput>>

GpReasoningAdded(id) ==
    [type |-> "response.output_item.added", item |-> "reasoning", name |-> "",
     call_id |-> "", id |-> id, encrypted_content |-> ""]

GpReasoningDone(id, enc) ==
    [type |-> "response.output_item.done", item |-> "reasoning", id |-> id,
     encrypted_content |-> enc]

GpSummaryDelta(t) == [type |-> "response.reasoning_summary_text.delta", delta |-> t]

GpIsReasoningAdded(c) == c.type = "response.output_item.added" /\ c.item = "reasoning"

GpIsReasoningDone(c) == c.type = "response.output_item.done" /\ c.item = "reasoning"

ReasoningId(k) == IF k = 1 THEN "rs_1" ELSE "rs_2"

\* a Responses stream with reasoning items, at most one message and one call
GptReasoningNext(cs) ==
    IF cs = <<>> THEN {GpCreated}
    ELSE LET last == cs[Len(cs)]
             count == CountWhere(cs, GpIsReasoningAdded)
         IN  IF GpIsReasoningAdded(last)
             THEN {GpSummaryDelta("hm")} \cup
                  {GpReasoningDone(last.id, e) : e \in {"enc_1", "enc_2"}}
             ELSE IF last.type = "response.reasoning_summary_text.delta"
             THEN {GpReasoningDone(ReasoningId(count), e) : e \in {"enc_1", "enc_2"}}
             ELSE IF GpIsCallAdded(last) THEN {GpArgumentsDelta(<<"{", "}">>)}
             ELSE IF GpIsArgumentsDelta(last) THEN {GpArgumentsDone}
             ELSE IF last.type = "response.function_call_arguments.done"
             THEN {GpItemDone("function_call")}
             ELSE IF GpIsMessageAdded(last) THEN {GpTextDelta("Hel")}
             ELSE IF last.type = "response.output_text.delta" THEN {GpItemDone("message")}
             ELSE IF last.type \in {"response.created", "response.output_item.done"}
             THEN {GpCompleted(Some("completed"), Some(GpUsage))} \cup
                  (IF count < MaxReasoningItems
                   THEN {GpReasoningAdded(ReasoningId(count + 1))} ELSE {}) \cup
                  (IF CountWhere(cs, GpIsCallAdded) < 1
                   THEN {GpItemAdded("function_call", "get_weather", "call_1")}
                   ELSE {}) \cup
                  (IF CountWhere(cs, GpIsMessageAdded) < 1
                   THEN {GpItemAdded("message", "", "")} ELSE {})
             ELSE {}

ClThinkingStart ==
    [type |-> "content_block_start", block |-> "thinking", name |-> "", id |-> ""]

ClThinkingDelta(t) ==
    [type |-> "content_block_delta", delta |-> "thinking_delta", thinking |-> t]

ClSignatureDelta(s) ==
    [type |-> "content_block_delta", delta |-> "signature_delta", signature |-> s]

ClIsThinkingStart(c) == c.type = "content_block_start" /\ c.block = "thinking"

ClIsSignatureDelta(c) == c.type = "content_block_delta" /\ c.delta = "signature_delta"

\* a Messages stream with thinking blocks, at most one text block and one tool use
ClaudeThinkingNext(cs) ==
    IF cs = <<>> THEN {ClMessageStart(10, Null, Some(3))}
    ELSE LET last == cs[Len(cs)]
         IN  IF ClIsThinkingStart(last)
             THEN {ClThinkingDelta("hm")} \cup {ClSignatureDelta(s) : s \in {"sigA", "sigB"}}
             ELSE IF last.type = "content_block_delta" /\ last.delta = "thinking_delta"
             THEN {ClSignatureDelta(s) : s \in {"sigA", "sigB"}}
             ELSE IF ClIsToolStart(last) THEN {ClInputJsonDelta(<<"{", "}">>)}
             ELSE IF ClIsTextStart(last) THEN {ClTextDelta("Hel")}
             ELSE IF last.type = "content_block_delta" THEN {ClBlockStop}
             ELSE IF last.type \in {"message_start", "content_block_stop"}
             THEN {ClMessageDelta(Some("end_turn"), 8)} \cup
                  (IF CountWhere(cs, ClIsThinkingStart) < MaxReasoningItems
                   THEN {ClThinkingStart} ELSE {}) \cup
                  (IF CountWhere(cs, ClIsToolStart) < 1
                   THEN {ClToolUseStart("get_weather", "call_1")} ELSE {}) \cup
                  (IF CountWhere(cs, ClIsTextStart) < 1 THEN {ClTextStart} ELSE {})
             ELSE IF last.type = "message_delta" THEN {ClMessageStop}
             ELSE {}

ReasoningNext(a, cs) ==
    IF a = "claude" THEN ClaudeThinkingNext(cs) ELSE GptReasoningNext(cs)

\* the adapter of the specifications that are not about the round trip
RtFixed == rtAdapter = "claude"

RtInit ==
    /\ rtAdapter \in {"claude", "gpt5_2"}
    /\ rtChunks = <<>>
    /\ rtLocal = [out |-> <<>>, partialToolCall |-> EmptyToolCall,
                  partialUsage |-> EmptyUsage, status |-> "running"]
    /\ rtInput = Null

\* the first turn's loop body runs on the next chunk
RtStep(c) ==
    /\ rtLocal.status = "running"
    /\ c \in ReasoningNext(rtAdapter, rtChunks)
    /\ rtChunks' = Append(rtChunks, c)
    /\ rtLocal' = HandleOf(rtAdapter, rtLocal, c)
    /\ UNCHANGED <<rtAdapter, rtInput>>

\* the first turn's stream is exhausted
RtEnd ==
    /\ rtLocal.status = "running"
    /\ rtChunks # <<>>
    /\ ReasoningNext(rtAdapter, rtChunks) = {}
    /\ rtLocal' = [rtLocal EXCEPT !.status = "done"]
    /\ UNCHANGED <<rtAdapter, rtChunks, rtInput>>

\* the history the next streamingResponseStateful call hands to the adapter
RtHistory ==
    <<UserAsks, concatUniEventsToUniMessage(rtLocal.out), UserMessage("Go on")>>

\* the next turn: this.transformUniMessageToModelInput(options.messages)
RtNextTurn ==
    /\ rtLocal.status = "done"
    /\ rtInput = Null
    /\ rtInput' = Some(IF rtAdapter = "claude" THEN ClaudeModelInput(RtHistory)
                       ELSE GptModelInput(RtHistory))
    /\ UNCHANGED <<rtAdapter, rtChunks, rtLocal>>

RtNext ==
    \/ \E c \in ReasoningNext(rtAdapter, rtChunks) : RtStep(c)
    \/ RtEnd
    \/ RtNextTurn

(***************************************************************************)
(* SpecGlmMerged: one GLM5Client.streamingResponse invocation on streams   *)
(* whose chunks may carry several tool-call deltas, or a tool-call delta   *)
(* together with the finish reason.                                        *)
(***************************************************************************)
GlmOpenCalls(cs) ==
    Cardinality({<<i, j>> \in (1..Len(cs)) \X (1..2) :
                    /\ cs[i].tool_calls # Null
                    /\ j <= Len(Val(cs[i].tool_calls))
                    /\ Val(cs[i].tool_calls)[j].name # ""})

GlmMergedNext(cs) ==
    LET opened == GlmOpenCalls(cs)
        nextOpen == {GlmToolCallDelta(n, f, CallId(opened + 1)) :
                        n \in ToolNames, f \in {<<>>, <<"{">>}}
        continue == {GlmToolCallDelta("", f, "") : f \in Fragments \ {<<>>}}
    IN  IF cs = <<>> THEN {GlmRoleChunk}
        ELSE IF CountWhere(cs, GlmIsFinish) > 0 THEN {}
        ELSE {GlmChunk(Null, Null, Null, Some("tool_calls"), Null)} \cup
             (IF opened < MaxToolCalls
              THEN {GlmDeltaChunk(d) : d \in nextOpen} ELSE {}) \cup
             (IF opened > 0 /\ TrailingWhere(cs, GlmIsToolContinue) < MaxFragments
              THEN {GlmDeltaChunk(d) : d \in continue} \cup
                   {GlmChunk(Null, Null, Some(<<d>>), Some("tool_calls"), Null) :
                       d \in continue}
              ELSE {}) \cup
             (IF opened > 0 /\ opened < MaxToolCalls
              THEN {GlmChunk(Null, Null, Some(<<d, o>>), Null, Null) :
                       d \in continue, o \in nextOpen}
              ELSE {})

GlmMergedStep(c) ==
    /\ adapter = "glm" /\ status = "running"
    /\ c \in GlmMergedNext(chunks)
    /\ Consume(c, GlmHandle(Local, c))

\* the vendor's sequence is exhausted: the generator returns
GlmMergedEnd ==
    /\ adapter = "glm" /\ status = "running"
    /\ chunks # <<>>
    /\ GlmMergedNext(chunks) = {}
    /\ status' = "done"
    /\ UNCHANGED <<adapter, chunks, out, partialToolCall, partialUsage>>

GlmMergedNextStep ==
    \/ \E c \in GlmMergedNext(chunks) : GlmMergedStep(c)
    \/ GlmMergedEnd

(***************************************************************************)
(* SpecQwen3: one Qwen3Client.streamingResponse invocation.  The vendor    *)
(* streams a tool call either as native tool_calls deltas or as content    *)
(* text between a "<tool_call>" chunk and a "</tool_call>" chunk.  Chunks  *)
(* have the shape of GlmChunk; content text is a string and the argument   *)
(* text of native deltas a token sequence.                                 *)
(***************************************************************************)
QwenEmptyToolCall ==
    [name |-> Null, arguments |-> Null, tool_call_id |-> Null, data |-> Null]

OpenTag == "<tool_call>"

CloseTag == "</tool_call>"

\* the usage block of Qwen3Client.transformModelOutputToUniEvent
QwenUsage(u) ==
    UsageMetadata(NumberOrNull(Some(u.prompt_tokens)), NumberOrNull(u.reasoning_tokens),
                  NumberOrNull(Some(u.completion_tokens)), NumberOrNull(u.cached_tokens))

\* one partial_tool_call item per tool-call delta; the name serves as tool_call_id
QwenToolItems(toolCalls) ==
    [i \in 1..Len(toolCalls) |->
        PartialToolCallItem(toolCalls[i].name, toolCalls[i].arguments, toolCalls[i].name)]

\* Qwen3Client.transformModelOutputToUniEvent; event_type "null" is the null
\* the code leaves when no branch sets it
QwenTransform(c) ==
    LET content == IF Truthy(c.content) THEN Val(c.content) ELSE ""
        t0 == IF content = "" THEN "null"
              ELSE IF content = OpenTag THEN "start"
              ELSE IF content = CloseTag THEN "stop"
              ELSE "delta"
        textItems == IF t0 = "delta" THEN <<TextItem(content)>> ELSE <<>>
        thinkItems == IF Truthy(c.reasoning_content)
                      THEN <<ThinkingItem(Val(c.reasoning_content), Null)>> ELSE <<>>
        t1 == IF Truthy(c.reasoning_content) THEN "delta" ELSE t0
        toolItems == IF c.tool_calls # Null THEN QwenToolItems(Val(c.tool_calls)) ELSE <<>>
        t2 == IF toolItems # <<>> THEN "delta" ELSE t1
        t3 == IF Truthy(c.finish_reason) THEN "stop" ELSE t2
        t4 == IF c.usage # Null /\ t3 = "null" THEN "delta" ELSE t3
    IN  UniEvent(t4, textItems \o thinkItems \o toolItems,
                 IF c.usage # Null THEN Some(QwenUsage(Val(c.usage))) ELSE Null,
                 IF Truthy(c.finish_reason)
                 THEN Some(GlmFinishReason(Val(c.finish_reason))) ELSE Null)

\* the text of a tool call as the model writes it between the tags
ToolCallHead(n) == "{name:" \o n \o ","

ToolCallTails == {"arguments:{}}", "arguments:{a}}"}

ArgumentsOfTail(tail) == IF tail = "arguments:{a}}" THEN {"a"} ELSE {}

Spaces == {"", " ", "  ", "   "}

\* JSON.parse(partialToolCall.data.trim()): the object with its name and
\* arguments, or a thrown SyntaxError
QwenParseToolCall(data) ==
    LET readings == {r \in ToolNames \X ToolCallTails :
                        \E l \in Spaces, m \in Spaces, t \in Spaces :
                            data = l \o ToolCallHead(r[1]) \o m \o r[2] \o t}
    IN  IF readings # {}
        THEN LET r == CHOOSE r \in readings : TRUE
             IN  [ok |-> TRUE, name |-> r[1], arguments |-> ArgumentsOfTail(r[2])]
        ELSE [ok |-> FALSE, name |-> "", arguments |-> {"SyntaxError"}]

\* the delta branch while a tagged tool call is open: buffer and continue
QwenBuffer(st, event) ==
    [st EXCEPT !.partialToolCall.data =
        Some(Val(@) \o (IF event.content_items # <<>>
                           /\ event.content_items[1].type = "text"
                        THEN event.content_items[1].text ELSE ""))]

\* the delta branch otherwise, per content item
RECURSIVE QwenItems(_, _)
QwenItems(st, items) ==
    IF items = <<>> THEN st
    ELSE LET item == Head(items)
             old == IF TruthyArgs(st.partialToolCall.arguments)
                    THEN Val(st.partialToolCall.arguments) ELSE <<>>
             st1 == IF item.type # "partial_tool_call" THEN st
                    ELSE IF ~Truthy(st.partialToolCall.name)
                    THEN [st EXCEPT !.partialToolCall.name = Some(item.name),
                                    !.partialToolCall.arguments = Some(<<>>)]
                    ELSE [st EXCEPT !.partialToolCall.arguments =
                             Some(old \o item.arguments)]
         IN  QwenItems(st1, Tail(items))

\* mutant: the buffer stays open after the tool call was yielded
QwenFlushDataKeepingBuffer(st) ==
    IF st.partialToolCall.data # Null
    THEN LET toolCall == QwenParseToolCall(Val(st.partialToolCall.data))
         IN  IF toolCall.ok
             THEN Yield(Yield(st,
                     UniEvent("delta",
                              <<PartialToolCallItem(toolCall.name,
                                    JSONStringify(toolCall.arguments), toolCall.name)>>,
                              Null, Null)),
                     ToolCallEvent(toolCall.name, toolCall.arguments, toolCall.name))
             ELSE Throw(st)
    ELSE st

\* the stop branch, first part: parse the buffered text and yield its call
QwenFlushData(st) ==
    IF st.partialToolCall.data # Null
    THEN LET toolCall == QwenParseToolCall(Val(st.partialToolCall.data))
         IN  IF toolCall.ok
             THEN [Yield(Yield(st,
                     UniEvent("delta",
                              <<PartialToolCallItem(toolCall.name,
                                    JSONStringify(toolCall.arguments), toolCall.name)>>,
                              Null, Null)),
                     ToolCallEvent(toolCall.name, toolCall.arguments, toolCall.name))
                   EXCEPT !.partialToolCall.data = Null]
             ELSE Throw(st)
    ELSE st

\* the stop branch, second part: finish the native partial tool call
QwenCloseToolCall(st) ==
    IF Truthy(st.partialToolCall.name) /\ TruthyArgs(st.partialToolCall.arguments)
    THEN LET parsed == JSONParse(Val(st.partialToolCall.arguments))
         IN  IF parsed.ok
             THEN [Yield(st, ToolCallEvent(Val(st.partialToolCall.name), parsed.value,
                                           Val(st.partialToolCall.name)))
                   EXCEPT !.partialToolCall.name = Null,
                          !.partialToolCall.arguments = Null,
                          !.partialToolCall.tool_call_id = Null]
             ELSE Throw(st)
    ELSE st

\* the body of the for await loop of Qwen3Client.streamingResponse
QwenHandle(st, c) ==
    LET event == QwenTransform(c)
    IN  IF event.event_type = "start"
        THEN [st EXCEPT !.partialToolCall.data = Some("")]
        ELSE IF event.event_type = "delta"
        THEN IF st.partialToolCall.data # Null
             THEN QwenBuffer(st, event)
             ELSE Yield(QwenItems(st, event.content_items), event)
        ELSE IF event.event_type = "stop"
        THEN LET st1 == QwenFlushData(st)
                 st2 == IF st1.status = "error" THEN st1 ELSE QwenCloseToolCall(st1)
             IN  IF st2.status = "error" THEN st2 ELSE YieldTerminal(st2, event)
        ELSE st

QwenTextChunk(text) == GlmChunk(Some(text), Null, Null, Null, Null)

QwIsTag(c) == c.content \in {Some(OpenTag), Some(CloseTag)}

QwIsOpenTag(c) == c.content = Some(OpenTag)

QwIsCloseTag(c) == c.content = Some(CloseTag)

QwIsHel(c) == c.content = Some("Hel")

\* the index of the last tag chunk of cs, 0 when there is none
LastTag(cs) ==
    LET tags == {i \in 1..Len(cs) : QwIsTag(cs[i])}
    IN  IF tags = {} THEN 0 ELSE CHOOSE i \in tags : \A j \in tags : j <= i

\* the last tag chunk of cs is "<tool_call>"
InsideTags(cs) == LastTag(cs) > 0 /\ QwIsOpenTag(cs[LastTag(cs)])

QwenVendorNext(cs) ==
    LET native == CountWhere(cs, GlmIsToolChunk) > 0
        tagged == CountWhere(cs, QwIsTag) > 0
    IN  IF cs = <<>> THEN {GlmRoleChunk}
        ELSE IF CountWhere(cs, GlmIsFinish) > 0 THEN {}
        ELSE {GlmChunk(Null, Null, Null, Some(r), u) :
                 r \in {"stop", "tool_calls"}, u \in {Null, Some(GlmSampleUsage)}} \cup
             (IF InsideTags(cs)
              THEN {QwenTextChunk(CloseTag)} \cup
                   (IF Len(cs) - LastTag(cs) < MaxBuffered
                    THEN {QwenTextChunk(t) :
                             t \in {" "} \cup ToolCallTails
                                   \cup {ToolCallHead(n) : n \in ToolNames}}
                    ELSE {})
              ELSE (IF ~native /\ CountWhere(cs, QwIsOpenTag) < MaxToolCalls
                    THEN {QwenTextChunk(OpenTag)} ELSE {}) \cup
                   (IF CountWhere(cs, QwIsHel) < MaxTextChunks
                    THEN {QwenTextChunk("Hel")} ELSE {}) \cup
                   (IF ~tagged /\ CountWhere(cs, GlmIsToolOpen) < MaxToolCalls
                    THEN {GlmDeltaChunk(GlmToolCallDelta(n, f, "")) :
                             n \in ToolNames, f \in {<<>>, <<"{">>, <<"{", "}">>}}
                    ELSE {}) \cup
                   (IF native /\ GlmIsToolChunk(cs[Len(cs)])
                       /\ TrailingWhere(cs, GlmIsToolContinue) + 1 < MaxFragments
                    THEN {GlmDeltaChunk(GlmToolCallDelta("", f, "")) :
                             f \in Fragments \ {<<>>}}
                    ELSE {}))

QwenInit ==
    /\ adapter = "qwen3"
    /\ chunks = <<>>
    /\ out = <<>>
    /\ partialToolCall = QwenEmptyToolCall
    /\ partialUsage = EmptyUsage
    /\ status = "running"

QwenStep(c) ==
    /\ adapter = "qwen3" /\ status = "running"
    /\ c \in QwenVendorNext(chunks)
    /\ Consume(c, QwenHandle(Local, c))

\* the vendor's sequence is exhausted: the generator returns
QwenEnd ==
    /\ adapter = "qwen3" /\ status = "running"
    /\ chunks # <<>>
    /\ QwenVendorNext(chunks) = {}
    /\ status' = "done"
    /\ UNCHANGED <<adapter, chunks, out, partialToolCall, partialUsage>>

QwenNext ==
    \/ \E c \in QwenVendorNext(chunks) : QwenStep(c)
    \/ QwenEnd

(***************************************************************************)
(* SpecGemini: one Gemini3Client.streamingResponse invocation.  A vendor   *)
(* chunk is a GenerateContentResponse: a candidate with parts, a finish    *)
(* reason and usage metadata, each possibly absent.                        *)
(***************************************************************************)
GemFunctionCall(name, args, sig) ==
    [functionCall |-> Some([name |-> name, args |-> args]), text |-> Null,
     thought |-> FALSE, thoughtSignature |-> sig]

GemText(text, thought, sig) ==
    [functionCall |-> Null, text |-> Some(text), thought |-> thought,
     thoughtSignature |-> sig]

\* a part that is neither a function call nor text (e.g. inline data)
GemInlineData ==
    [functionCall |-> Null, text |-> Null, thought |-> FALSE, thoughtSignature |-> Null]

GemChunk(candidate, parts, finishReason, usage) ==
    [candidate |-> candidate, parts |-> parts, finishReason |-> finishReason,
     usageMetadata |-> usage]

GemVendorUsage(prompt, cached, thoughts, candidates) ==
    [promptTokenCount |-> prompt, cachedContentTokenCount |-> cached,
     thoughtsTokenCount |-> thoughts, candidatesTokenCount |-> candidates]

\* a tool_call item as the Gemini adapter builds it, with the thought signature
GemToolCallItem(n, a, id, sig) ==
    [type |-> "tool_call", name |-> n, arguments |-> a, tool_call_id |-> id,
     signature |-> sig]

GemPartialToolCallItem(n, a, id, sig) ==
    [type |-> "partial_tool_call", name |-> n, arguments |-> a, tool_call_id |-> id,
     signature |-> sig]

\* one iteration of the parts loop: the content item, or Null for a part
\* that makes the transform throw
GeminiPartItem(part) ==
    IF part.functionCall # Null
    THEN LET call == Val(part.functionCall)
         IN  Some(GemToolCallItem(OrElse(call.name, ""),
                                  IF call.args # Null THEN Val(call.args) ELSE {},
                                  OrElse(call.name, ""), part.thoughtSignature))
    ELSE IF part.text # Null /\ part.thought
    THEN Some(ThinkingItem(Val(part.text), part.thoughtSignature))
    ELSE IF part.text # Null
    THEN Some([type |-> "text", text |-> Val(part.text),
               signature |-> part.thoughtSignature])
    ELSE Null

\* stopReasonMapping[candidate.finishReason] || "unknown"
GeminiFinishReason(r) ==
    IF r = "STOP" THEN "stop" ELSE IF r = "MAX_TOKENS" THEN "length" ELSE "unknown"

\* the usage block of Gemini3Client.transformModelOutputToUniEvent
GeminiUsage(u) ==
    UsageMetadata(Some((IF u.promptTokenCount # Null THEN Val(u.promptTokenCount) ELSE 0)
                       - (IF u.cachedContentTokenCount # Null
                          THEN Val(u.cachedContentTokenCount) ELSE 0)),
                  NumberOrNull(u.thoughtsTokenCount),
                  NumberOrNull(u.candidatesTokenCount),
                  NumberOrNull(u.cachedContentTokenCount))

\* Gemini3Client.transformModelOutputToUniEvent: the event, or a thrown Error
GeminiTransform(c) ==
    LET items == [i \in 1..Len(c.parts) |-> GeminiPartItem(c.parts[i])]
    IN  IF ~c.candidate \/ \E i \in 1..Len(items) : items[i] = Null
        THEN [ok |-> FALSE, event |-> Null]
        ELSE [ok |-> TRUE,
              event |-> UniEvent(IF Truthy(c.finishReason) THEN "stop" ELSE "delta",
                                 [i \in 1..Len(items) |-> Val(items[i])],
                                 IF c.usageMetadata # Null
                                 THEN Some(GeminiUsage(Val(c.usageMetadata))) ELSE Null,
                                 IF Truthy(c.finishReason)
                                 THEN Some(GeminiFinishReason(Val(c.finishReason)))
                                 ELSE Null)]

\* mutant: the partial event carries the arguments object and no signature
GeminiPartialUnserialized(item) ==
    UniEvent("delta",
             <<GemPartialToolCallItem(item.name, item.arguments, item.tool_call_id, Null)>>,
             Null, Null)

\* the partial_tool_call event synthesized for a tool_call item
GeminiPartial(item) ==
    UniEvent("delta",
             <<GemPartialToolCallItem(item.name, JSONStringify(item.arguments),
                                      item.tool_call_id, item.signature)>>,
             Null, Null)

\* the inner loop over event.content_items
RECURSIVE GeminiItems(_, _)
GeminiItems(st, items) ==
    IF items = <<>> THEN st
    ELSE GeminiItems(IF Head(items).type = "tool_call"
                     THEN Yield(st, GeminiPartial(Head(items))) ELSE st,
                     Tail(items))

\* the body of the for await loop of Gemini3Client.streamingResponse
GeminiHandle(st, c) ==
    LET transformed == GeminiTransform(c)
    IN  IF ~transformed.ok THEN Throw(st)
        ELSE Yield(GeminiItems(st, transformed.event.content_items), transformed.event)

GemParts ==
    {GemFunctionCall(Some("get_weather"), Some({"a"}), Some("sig")),
     GemFunctionCall(Some("get_time"), Null, Null),
     GemText("Hmm", TRUE, Some("sig")),
     GemInlineData}

GemPartLists == UNION {[1..n -> GemParts] : n \in 0..MaxParts}

GemSampleUsage == GemVendorUsage(Some(10), Some(3), Null, Some(8))

GemIsFinish(c) == c.finishReason # Null

GeminiVendorNext(cs) ==
    IF Len(cs) >= MaxGeminiChunks \/ CountWhere(cs, GemIsFinish) > 0 THEN {}
    ELSE {GemChunk(TRUE, parts, Null, Null) : parts \in GemPartLists \ {<<>>}} \cup
         {GemChunk(TRUE, parts, Some("STOP"), Some(GemSampleUsage)) :
             parts \in {<<>>, <<GemText("Hel", FALSE, Null)>>,
                        <<GemFunctionCall(Some("get_time"), Null, Null)>>}} \cup
         {GemChunk(TRUE, <<>>, Some("SAFETY"), Null), GemChunk(FALSE, <<>>, Null, Null)}

GeminiInit ==
    /\ adapter = "gemini3"
    /\ chunks = <<>>
    /\ out = <<>>
    /\ partialToolCall = EmptyToolCall
    /\ partialUsage = EmptyUsage
    /\ status = "running"

GeminiStep(c) ==
    /\ adapter = "gemini3" /\ status = "running"
    /\ c \in GeminiVendorNext(chunks)
    /\ Consume(c, GeminiHandle(Local, c))

\* the vendor's sequence is exhausted: LLMClient._validateLastEvent(lastEvent)
\* runs (its code is not part of the sources read here: it returns or throws)
\* and the generator ends
GeminiEnd ==
    /\ adapter = "gemini3" /\ status = "running"
    /\ chunks # <<>>
    /\ GeminiVendorNext(chunks) = {}
    /\ status' \in {"done", "error"}
    /\ UNCHANGED <<adapter, chunks, out, partialToolCall, partialUsage>>

GeminiNext ==
    \/ \E c \in GeminiVendorNext(chunks) : GeminiStep(c)
    \/ GeminiEnd

(***************************************************************************)
(* SpecRouter: the constructor of AutoLLMClient.  A model name is a        *)
(* sequence of name tokens; String.includes looks for a pattern token in   *)
(* it and toLowerCase lower-cases every token.                             *)
(***************************************************************************)
VARIABLES
    autoModel,       \* options.model
    autoClientType,  \* options.clientType: Null when absent or null
    autoEnv,         \* process.env.CLIENT_TYPE: Null when unset
    autoPc,          \* "new" before the constructor ran, "done" after
    autoClient,      \* this._client: Null, or Some(adapter class)
    autoError        \* Null, or Some(message) of the Error thrown

autoVars == <<autoModel, autoClientType, autoEnv, autoPc, autoClient, autoError>>

NameTokens ==
    {"gemini-3", "Gemini-3", "claude", "4-5", "gpt-5.1", "gpt-5.2", "glm-4.7",
     "qwen3", "QWEN3", "unknown-model", "-pro"}

\* String.prototype.toLowerCase on one token
LowerToken(t) ==
    CASE t = "Gemini-3" -> "gemini-3"
      [] t = "QWEN3" -> "qwen3"
      [] OTHER -> t

toLowerCase(name) == [i \in 1..Len(name) |-> LowerToken(name[i])]

\* String.prototype.includes
includes(name, pattern) == \E i \in 1..Len(name) : name[i] = pattern

\* a || b || c on optional strings: the first that is neither absent nor ""
FirstTruthyName(a, b, c) ==
    IF a # Null /\ Val(a) # <<>> THEN Val(a)
    ELSE IF b # Null /\ Val(b) # <<>> THEN Val(b)
    ELSE c

RouteOf(clientType) ==
    IF includes(clientType, "gemini-3") THEN Some("Gemini3Client")
    ELSE IF includes(clientType, "claude") /\ includes(clientType, "4-5")
         THEN Some("Claude4_5Client")
    ELSE IF includes(clientType, "gpt-5.1") \/ includes(clientType, "gpt-5.2")
         THEN Some("GPT5_2Client")
    ELSE IF includes(clientType, "glm-4.7") THEN Some("GLM4_7Client")
    ELSE IF includes(clientType, "qwen3") THEN Some("Qwen3Client")
    ELSE Null

\* a router that falls through to a default adapter
CreateClientWithDefault(model, clientType, env) ==
    LET route == RouteOf(FirstTruthyName(clientType, env, toLowerCase(model)))
    IN  IF route = Null THEN Some("GPT5_2Client") ELSE route

CreateClientForModel(model, clientType, env) ==
    RouteOf(FirstTruthyName(clientType, env, toLowerCase(model)))

ModelNames ==
    UNION {[1..n -> NameTokens] : n \in 1..MaxNameTokens}

ClientTypes ==
    {Null, Some(<<>>), Some(<<"claude", "4-5">>), Some(<<"Gemini-3">>),
     Some(<<"unknown-model">>)}

EnvClientTypes == {Null, Some(<<"qwen3">>), Some(<<"unknown-model">>)}

AutoFixed ==
    /\ autoModel = <<"unknown-model">>
    /\ autoClientType = Null
    /\ autoEnv = Null

AutoInit ==
    /\ autoModel \in ModelNames
    /\ autoClientType \in ClientTypes
    /\ autoEnv \in EnvClientTypes
    /\ autoPc = "new"
    /\ autoClient = Null
    /\ autoError = Null

\* new AutoLLMClient({model, clientType})
Construct ==
    /\ autoPc = "new"
    /\ autoPc' = "done"
    /\ autoClient' = CreateClientForModel(autoModel, autoClientType, autoEnv)
    /\ autoError' = IF autoClient' = Null THEN Some("not supported") ELSE Null
    /\ UNCHANGED <<autoModel, autoClientType, autoEnv>>

AutoNext == Construct

(***************************************************************************)
(* SpecOverlap: two streamingResponseStateful generators of one client,    *)
(* started and consumed in any interleaving.  Each generator has its own   *)
(* message, config and events array; this._history is shared.              *)
(***************************************************************************)
VARIABLES
    ovHistory,   \* this._history
    ovBase,      \* this._history before either call
    ovPc,        \* per call: "idle", "streaming", "tracing", "done"
    ovMessage,   \* per call: its message parameter
    ovTrace,     \* per call: whether its config carries a trace_id
    ovEvents,    \* per call: its local events array
    ovSaved,     \* per call: the histories handed to the tracer
    ovCleared    \* clearHistory ran

ovVars == <<ovHistory, ovBase, ovPc, ovMessage, ovTrace, ovEvents, ovSaved, ovCleared>>

Calls == {1, 2}

AssistantSaidHello == concatUniEventsToUniMessage(<<DeltaHel, DeltaLo, StopTwo>>)

OvFixed ==
    /\ ovBase = <<>>
    /\ ovTrace = [c \in Calls |-> FALSE]

OvInit ==
    /\ ovBase \in {<<>>, <<UserMessage("Go on"), AssistantSaidHello>>}
    /\ ovHistory = ovBase
    /\ ovPc = [c \in Calls |-> "idle"]
    /\ ovMessage = [c \in Calls |->
                      IF c = 1 THEN UserMessage("My name is Alice")
                               ELSE UserMessage("What is my name?")]
    /\ ovTrace \in [Calls -> BOOLEAN]
    /\ ovEvents = [c \in Calls |-> <<>>]
    /\ ovSaved = [c \in Calls |-> <<>>]
    /\ ovCleared = FALSE

\* first next() of generator c: this._history.push(message), invoke the adapter
OvStart(c) ==
    /\ ovPc[c] = "idle"
    /\ ovHistory' = PushUser(ovHistory, ovMessage[c])
    /\ ovPc' = [ovPc EXCEPT ![c] = "streaming"]
    /\ UNCHANGED <<ovBase, ovMessage, ovTrace, ovEvents, ovSaved, ovCleared>>

\* one iteration of generator c's for await loop
OvForward(c, e) ==
    /\ ovPc[c] = "streaming"
    /\ Len(ovEvents[c]) < MaxOverlapEvents
    /\ ovEvents' = [ovEvents EXCEPT ![c] = RecordEvent(@, e)]
    /\ UNCHANGED <<ovHistory, ovBase, ovPc, ovMessage, ovTrace, ovSaved, ovCleared>>

\* generator c's adapter sequence is exhausted: reassemble and append
OvExhaust(c) ==
    /\ ovPc[c] = "streaming"
    /\ ovHistory' = PushAssistant(ovHistory, ovEvents[c])
    /\ ovPc' = [ovPc EXCEPT ![c] = IF ovTrace[c] THEN "tracing" ELSE "done"]
    /\ UNCHANGED <<ovBase, ovMessage, ovTrace, ovEvents, ovSaved, ovCleared>>

\* generator c after the dynamic import: tracer.saveHistory(this._history, ...)
OvSaveTrace(c) ==
    /\ ovPc[c] = "tracing"
    /\ ovSaved' = [ovSaved EXCEPT ![c] = Append(@, ovHistory)]
    /\ ovPc' = [ovPc EXCEPT ![c] = "done"]
    /\ UNCHANGED <<ovHistory, ovBase, ovMessage, ovTrace, ovEvents, ovCleared>>

\* clearHistory(): this._history = []
OvClearHistory ==
    /\ ~ovCleared
    /\ ovHistory' = <<>>
    /\ ovCleared' = TRUE
    /\ UNCHANGED <<ovBase, ovPc, ovMessage, ovTrace, ovEvents, ovSaved>>

OvNext ==
    \/ \E c \in Calls : OvStart(c)
    \/ \E c \in Calls, e \in AdapterEvents : OvForward(c, e)
    \/ \E c \in Calls : OvExhaust(c)
    \/ \E c \in Calls : OvSaveTrace(c)
    \/ OvClearHistory

(***************************************************************************)
(* The specifications.                                                     *)
(***************************************************************************)
vars == <<ctlVars, concatVars, adapterVars, snapVars, concVars, reqVars, rtVars, autoVars, ovVars>>

Init == OvFixed /\ OvInit /\ AutoFixed /\ AutoInit /\ RtFixed /\ RtInit /\ ReqFixed /\ ReqInit /\ CtlInit /\ ConcatInit /\ AdapterInit /\ adapter = "claude" /\ SnapInit /\ ConcInit

Next == CtlNext /\ UNCHANGED <<concatVars, adapterVars, snapVars, concVars, reqVars, rtVars, autoVars, ovVars>>

Spec == Init /\ [][Next]_vars

InitConcat == OvFixed /\ OvInit /\ AutoFixed /\ AutoInit /\ RtFixed /\ RtInit /\ ReqFixed /\ ReqInit /\ CtlInit /\ ConcatInit /\ AdapterInit /\ adapter = "claude" /\ SnapInit /\ ConcInit

NextConcat ==
    ConcatNext /\ UNCHANGED <<ctlVars, adapterVars, snapVars, concVars, reqVars, rtVars, autoVars, ovVars>>

SpecConcat == InitConcat /\ [][NextConcat]_vars

InitAdapter == OvFixed /\ OvInit /\ AutoFixed /\ AutoInit /\ RtFixed /\ RtInit /\ ReqFixed /\ ReqInit /\ CtlInit /\ ConcatInit /\ AdapterInit /\ SnapInit /\ ConcInit

NextAdapter ==
    AdapterNext /\ UNCHANGED <<ctlVars, concatVars, snapVars, concVars, reqVars, rtVars, autoVars, ovVars>>

SpecAdapter == InitAdapter /\ [][NextAdapter]_vars

InitSnapshot == Init

NextSnapshot ==
    SnapNext /\ UNCHANGED <<ctlVars, concatVars, adapterVars, concVars, reqVars, rtVars, autoVars, ovVars>>

SpecSnapshot == InitSnapshot /\ [][NextSnapshot]_vars

InitConcurrent == InitAdapter

NextConcurrent ==
    ConcNext /\ UNCHANGED <<ctlVars, concatVars, snapVars, reqVars, rtVars, autoVars, ovVars, chunks, out,
                            partialToolCall, partialUsage, status, adapter>>

SpecConcurrent == InitConcurrent /\ [][NextConcurrent]_vars

InitRequest ==
    OvFixed /\ OvInit /\ AutoFixed /\ AutoInit /\ RtFixed /\ RtInit /\ ReqInit /\ CtlInit /\ ConcatInit /\ AdapterInit /\ adapter = "claude" /\ SnapInit
            /\ ConcInit

NextRequest ==
    ReqNext /\ UNCHANGED <<ctlVars, concatVars, adapterVars, snapVars, concVars, rtVars, autoVars, ovVars>>

SpecRequest == InitRequest /\ [][NextRequest]_vars

InitRoundTrip ==
    OvFixed /\ OvInit /\ AutoFixed /\ AutoInit /\ RtInit /\ ReqFixed /\ ReqInit /\ CtlInit /\ ConcatInit /\ AdapterInit
           /\ adapter = "claude" /\ SnapInit /\ ConcInit

NextRoundTrip ==
    RtNext /\ UNCHANGED <<ctlVars, concatVars, adapterVars, snapVars, concVars, reqVars, autoVars, ovVars>>

SpecRoundTrip == InitRoundTrip /\ [][NextRoundTrip]_vars

InitRouter ==
    OvFixed /\ OvInit /\ AutoInit /\ RtFixed /\ RtInit /\ ReqFixed /\ ReqInit /\ CtlInit /\ ConcatInit /\ AdapterInit
             /\ adapter = "claude" /\ SnapInit /\ ConcInit

NextRouter ==
    AutoNext /\ UNCHANGED <<ctlVars, concatVars, adapterVars, snapVars, concVars, reqVars, rtVars,
                            ovVars>>

SpecRouter == InitRouter /\ [][NextRouter]_vars

InitOverlap ==
    OvInit /\ AutoFixed /\ AutoInit /\ RtFixed /\ RtInit /\ ReqFixed /\ ReqInit /\ CtlInit
           /\ ConcatInit /\ AdapterInit /\ adapter = "claude" /\ SnapInit /\ ConcInit

NextOverlap ==
    OvNext /\ UNCHANGED <<ctlVars, concatVars, adapterVars, snapVars, concVars, reqVars, rtVars,
                          autoVars>>

SpecOverlap == InitOverlap /\ [][NextOverlap]_vars

InitGlmMerged == InitAdapter /\ adapter = "glm"

NextGlmMerged ==
    GlmMergedNextStep /\ UNCHANGED <<ctlVars, concatVars, snapVars, concVars, reqVars, rtVars,
                                     autoVars, ovVars>>

SpecGlmMerged == InitGlmMerged /\ [][NextGlmMerged]_vars

OthersInit ==
    OvFixed /\ OvInit /\ AutoFixed /\ AutoInit /\ RtFixed /\ RtInit /\ ReqFixed /\ ReqInit
            /\ CtlInit /\ ConcatInit /\ SnapInit /\ ConcInit

InitQwen3 == OthersInit /\ QwenInit

NextQwen3 ==
    QwenNext /\ UNCHANGED <<ctlVars, concatVars, snapVars, concVars, reqVars, rtVars,
                            autoVars, ovVars>>

SpecQwen3 == InitQwen3 /\ [][NextQwen3]_vars

InitGemini == OthersInit /\ GeminiInit

NextGemini ==
    GeminiNext /\ UNCHANGED <<ctlVars, concatVars, snapVars, concVars, reqVars, rtVars,
                              autoVars, ovVars>>

SpecGemini == InitGemini /\ [][NextGemini]_vars

(***************************************************************************)
(* Properties of the controller (checked under Spec).                      *)
(***************************************************************************)
\* the generator has run past its for await loop
Exhausted == pc \in {"tracing", "done"}

TurnMessage == Val(message)

\* C1: after a streamingResponseStateful(m, config) call whose adapter stream
\* yielded a non-empty event list E was consumed to exhaustion (and nothing else
\* touched the controller meanwhile), the history is the history H of before the
\* call, then m, then concatUniEventsToUniMessage(E): two messages longer, the
\* last one of role "assistant"; for E = [delta "Hel", delta "lo",
\* stop(response_tokens 2)] the appended message holds the single text item "Hello".
C1_HistoryAfterTurn ==
    (Exhausted /\ ~cleared /\ adapterYielded # <<>>) =>
        /\ history = historyAtCall \o <<TurnMessage>>
                        \o <<concatUniEventsToUniMessage(adapterYielded)>>
        /\ Len(history) = Len(historyAtCall) + 2
        /\ history[Len(history)].role = "assistant"
        /\ (adapterYielded = <<DeltaHel, DeltaLo, StopTwo>> =>
                /\ history[Len(history)].content_items = <<TextItem("Hello")>>
                /\ Val(history[Len(history)].usage_metadata).response_tokens = Some(2)
                /\ (historyAtCall = <<>> => Len(history) = 2))

C1_Witness ==
    /\ pc = "done" /\ ~cleared
    /\ adapterYielded = <<DeltaHel, DeltaLo, StopTwo>>
    /\ Len(historyAtCall) = 2
    /\ Len(history) = 4
    /\ history[4].content_items = <<TextItem("Hello")>>

\* C2: the events streamingResponseStateful yields to its caller are exactly
\* the events the adapter yielded, in order; and while the adapter's sequence
\* is not exhausted the history ends with the submitted user message (it holds
\* no assistant message of this turn), or is empty after a clearHistory.
C2_ForwardsThenAppends ==
    /\ delivered = adapterYielded
    /\ (pc = "streaming" =>
            IF cleared THEN history = <<>>
            ELSE history = Append(historyAtCall, TurnMessage))

C2_Witness ==
    /\ pc = "streaming" /\ ~cleared
    /\ delivered = <<DeltaHel, DeltaLo, StopTwo>>
    /\ Len(historyAtCall) = 2
    /\ Len(history) = 3

\* C3: the adapter is invoked with the history as it is after m was appended:
\* the history of before the call followed by m; on the n-th of n sequential,
\* fully consumed, non-empty turns these are 2n-1 messages, user and assistant
\* messages alternating.
C3_AdapterSeesWholeHistory ==
    (pc # "idle") =>
        /\ adapterArg = Append(historyAtCall, TurnMessage)
        /\ ((pc = "streaming" /\ sequential) =>
                /\ Len(adapterArg) = 2 * turn - 1
                /\ \A i \in 1..Len(adapterArg) :
                      adapterArg[i].role = IF i % 2 = 1 THEN "user" ELSE "assistant")

C3_Witness ==
    /\ pc = "streaming" /\ sequential /\ turn = 2
    /\ Len(adapterArg) = 3
    /\ adapterArg[3] = TurnMessage
    /\ adapterArg[2].role = "assistant"

\* C4: when the adapter's stream yields no event, no assistant message is
\* appended: after exhaustion the history is the previous history plus the
\* submitted user message only.
C4_EmptyStreamAppendsNothing ==
    (Exhausted /\ ~cleared /\ adapterYielded = <<>>) =>
        history = Append(historyAtCall, TurnMessage)

C4_Witness ==
    /\ pc = "done" /\ ~cleared /\ adapterYielded = <<>>
    /\ Len(historyAtCall) = 2
    /\ Len(history) = 3
    /\ history[3].role = "user"

(***************************************************************************)
(* Properties of the reassembler (checked under SpecConcat).               *)
(***************************************************************************)
UsageFields == {"prompt_tokens", "thoughts_tokens", "response_tokens", "cached_tokens"}

\* the value of usage field f that event e reports, Null when it reports none
ReportedField(e, f) == IF e.usage_metadata = Null THEN Null ELSE Val(e.usage_metadata)[f]

\* the last non-null value of usage field f over the event list, else Null
LastReportedField(evs, f) ==
    LET known == {i \in 1..Len(evs) : ReportedField(evs[i], f) # Null}
    IN  IF known = {} THEN Null
        ELSE ReportedField(evs[CHOOSE i \in known : \A j \in known : j <= i], f)

\* the last non-null finish_reason over the event list, else Null
LastReportedFinish(evs) ==
    LET known == {i \in 1..Len(evs) : evs[i].finish_reason # Null}
    IN  IF known = {} THEN Null
        ELSE evs[CHOOSE i \in known : \A j \in known : j <= i].finish_reason

Reassembled == Val(cResult)

ResultField(f) ==
    IF Reassembled.usage_metadata = Null THEN Null ELSE Val(Reassembled.usage_metadata)[f]

\* C5: concatUniEventsToUniMessage returns, for each of prompt_tokens,
\* thoughts_tokens, response_tokens, cached_tokens and for finish_reason, the
\* last non-null value of that field over the whole event list: a later event
\* whose usage_metadata or field is null does not erase an earlier known value.
C5_UsagePerFieldLastNonNull ==
    (cResult # Null) =>
        /\ \A f \in UsageFields : ResultField(f) = LastReportedField(cEvents, f)
        /\ Reassembled.finish_reason = LastReportedFinish(cEvents)

\* the fragments of an event list: its content items in event order
RECURSIVE FragmentsOf(_)
FragmentsOf(evs) ==
    IF evs = <<>> THEN <<>> ELSE Head(evs).content_items \o FragmentsOf(Tail(evs))

Payload(item) == IF item.type = "text" THEN item.text ELSE item.thinking

\* the event list holds only text and thinking fragments with non-empty payloads
OnlyNonEmptyTextAndThinking(evs) ==
    \A i \in 1..Len(FragmentsOf(evs)) :
        /\ FragmentsOf(evs)[i].type \in {"text", "thinking"}
        /\ Payload(FragmentsOf(evs)[i]) # ""

\* the positions at which a maximal run of same-typed fragments starts
RunStarts(frs) == {i \in 1..Len(frs) : i = 1 \/ frs[i].type # frs[i - 1].type}

\* the last position of the run that starts at s
RunEnd(frs, s) ==
    CHOOSE e \in s..Len(frs) :
        /\ \A k \in s..e : frs[k].type = frs[s].type
        /\ (e = Len(frs) \/ frs[e + 1].type # frs[s].type)

\* the k-th run start, counting from 1
NthRunStart(frs, k) ==
    CHOOSE s \in RunStarts(frs) : Cardinality({t \in RunStarts(frs) : t < s}) = k - 1

RECURSIVE JoinPayloads(_, _, _)
JoinPayloads(frs, from, to) ==
    IF from > to THEN "" ELSE Payload(frs[from]) \o JoinPayloads(frs, from + 1, to)

RECURSIVE JoinText(_)
JoinText(items) ==
    IF items = <<>> THEN ""
    ELSE (IF Head(items).type = "text" THEN Head(items).text ELSE "") \o JoinText(Tail(items))

\* C6: for an event list whose content items are text and thinking fragments
\* with non-empty payloads, the result has exactly one item per maximal
\* contiguous run of same-typed fragments, in run order, whose payload is the
\* concatenation of the run's fragments in event order; hence the text items
\* of the result concatenate to the concatenation of all text fragments.
C6_OneItemPerRun ==
    (cResult # Null /\ OnlyNonEmptyTextAndThinking(cEvents)) =>
        LET frs == FragmentsOf(cEvents)
            items == Reassembled.content_items
        IN  /\ Len(items) = Cardinality(RunStarts(frs))
            /\ \A k \in 1..Len(items) :
                  LET s == NthRunStart(frs, k)
                  IN  /\ items[k].type = frs[s].type
                      /\ Payload(items[k]) = JoinPayloads(frs, s, RunEnd(frs, s))
            /\ JoinText(items) = JoinText(frs)

C6_Witness ==
    /\ cResult # Null
    /\ cEvents = <<DeltaHel, DeltaLo, DeltaThinkThenText>>
    /\ Len(Reassembled.content_items) = 3
    /\ Reassembled.content_items[1].text = "Hello"
    /\ Reassembled.content_items[3].text = "Hel"

\* the content items after the first k fragments of the event list were folded
FoldedPrefix(k) == ConcatItems(<<>>, SubSeq(FragmentsOf(cEvents), 1, k))

\* fragment k is a text or thinking fragment that follows a tool_call,
\* image_url or tool_result item of the output
FollowsOwnItem(k) ==
    /\ FragmentsOf(cEvents)[k].type \in {"text", "thinking"}
    /\ FoldedPrefix(k - 1) # <<>>
    /\ FoldedPrefix(k - 1)[Len(FoldedPrefix(k - 1))].type \in
           {"tool_call", "image_url", "tool_result"}

\* the result holds no partial_tool_call item, and its tool_call, image_url
\* and tool_result items are those of the events, one each, in event order
OwnItemsKept ==
    LET IsOwn(x) == x.type \in {"tool_call", "image_url", "tool_result"}
    IN  /\ \A i \in 1..Len(Reassembled.content_items) :
              Reassembled.content_items[i].type # "partial_tool_call"
        /\ SelectSeq(Reassembled.content_items, IsOwn) =
              SelectSeq(FragmentsOf(cEvents), IsOwn)

C23_SignatureRuleIdentical ==
    (cResult # Null) =>
        \A k \in 1..Len(FragmentsOf(cEvents)) :
            LET f == FragmentsOf(cEvents)[k]
                prev == FoldedPrefix(k - 1)
                n == Len(prev)
                field == IF f.type = "text" THEN "text" ELSE "thinking"
            IN  f.type \in {"text", "thinking"} =>
                   IF n > 0 /\ prev[n].type = f.type
                   THEN FoldedPrefix(k) =
                           [prev EXCEPT ![n] =
                               [prev[n] EXCEPT
                                   ![field] = Payload(prev[n]) \o Payload(f),
                                   !.signature = IF Truthy(f.signature) THEN f.signature
                                                 ELSE prev[n].signature]]
                   ELSE IF Payload(f) = "" /\ ~Truthy(f.signature)
                        THEN FoldedPrefix(k) = prev
                        ELSE FoldedPrefix(k) = Append(prev, f)

\* C24: concatUniEventsToUniMessage is pure: a second call on the same event
\* list returns a message equal to the first, and a call leaves every input
\* event and every input content item unchanged.
C24_ConcatPure ==
    /\ [](cAgain # Null => cAgain = cResult)
    /\ [][(cResult' # cResult \/ cAgain' # cAgain) => cEvents' = cEvents]_vars

\* two calls on a list whose text fragments are merged returned the same message
C24_Witness ==
    /\ cAgain # Null /\ cAgain = cResult
    /\ cEvents = <<DeltaHel, DeltaLo, DeltaToolCall>>
    /\ Reassembled.content_items[1].text = "Hello"

(***************************************************************************)
(* Properties of the adapters (checked under SpecAdapter).  They are       *)
(* stated over the vendor chunks consumed, independently of the            *)
(* accumulator.                                                            *)
(***************************************************************************)
\* chunk c opens a tool call
IsToolOpen(c) ==
    IF adapter = "claude" THEN ClIsToolStart(c)
    ELSE IF adapter = "gpt5_2" THEN GpIsCallAdded(c)
    ELSE GlmIsToolOpen(c)

\* chunk c continues the arguments of the open tool call
IsArgumentChunk(c) ==
    IF adapter = "claude" THEN ClIsJsonDelta(c)
    ELSE IF adapter = "gpt5_2" THEN GpIsArgumentsDelta(c)
    ELSE GlmIsToolContinue(c)

\* chunk c ends the tool call that is open when it arrives
IsToolClose(c) ==
    IF adapter = "claude" THEN c.type = "content_block_stop"
    ELSE IF adapter = "gpt5_2" THEN c.type = "response.function_call_arguments.done"
    ELSE GlmIsToolOpen(c) \/ GlmIsFinish(c)

OpenName(c) ==
    IF adapter = "glm" THEN Val(c.tool_calls)[1].name ELSE c.name

OpenId(c) ==
    IF adapter = "claude" THEN c.id
    ELSE IF adapter = "gpt5_2" THEN c.call_id
    ELSE Val(c.tool_calls)[1].id

\* the argument fragment a chunk of a tool call carries
FragmentOf(c) ==
    IF adapter = "claude" THEN (IF ClIsJsonDelta(c) THEN c.partial_json ELSE <<>>)
    ELSE IF adapter = "gpt5_2" THEN (IF GpIsArgumentsDelta(c) THEN c.delta ELSE <<>>)
    ELSE Val(c.tool_calls)[1].arguments

\* the positions of the chunks that open a tool call
OpenIndexes == {i \in 1..Len(chunks) : IsToolOpen(chunks[i])}

\* the last chunk of the call opened at o: o and the argument chunks right after it
LastChunkOf(o) ==
    CHOOSE e \in o..Len(chunks) :
        /\ \A k \in (o + 1)..e : IsArgumentChunk(chunks[k])
        /\ (e = Len(chunks) \/ ~IsArgumentChunk(chunks[e + 1]))

\* the vendor has ended the call opened at o
CallClosed(o) == \E i \in (LastChunkOf(o) + 1)..Len(chunks) : IsToolClose(chunks[i])

RECURSIVE JoinFragments(_, _)
JoinFragments(from, to) ==
    IF from > to THEN <<>> ELSE FragmentOf(chunks[from]) \o JoinFragments(from + 1, to)

\* the whole arguments text the vendor streamed for the call opened at o
StreamedArguments(o) == JoinFragments(o, LastChunkOf(o))

IsToolItem(item) == item.type \in {"partial_tool_call", "tool_call"}

HasToolItem(ev) == \E i \in 1..Len(ev.content_items) : IsToolItem(ev.content_items[i])

\* the content of the yielded events that carry tool items, in order
ToolEventItems ==
    LET evs == SelectSeq(out, HasToolItem)
    IN  [i \in 1..Len(evs) |-> evs[i].content_items]

\* the events the claim expects for the partial phase of the call opened at o
ExpectedPartials(o) ==
    <<<<PartialToolCallItem(OpenName(chunks[o]), <<>>, OpenId(chunks[o]))>>>> \o
    [k \in 1..(LastChunkOf(o) - o) |->
        <<PartialToolCallItem("", FragmentOf(chunks[o + k]), "")>>]

\* the tool_call event the claim expects for the call opened at o
ExpectedToolCall(o) ==
    <<ToolCallItem(OpenName(chunks[o]), JSONParse(StreamedArguments(o)).value,
                   OpenId(chunks[o]))>>

\* the stream holds exactly one tool invocation, and it is closed
OneClosedInvocation ==
    /\ adapter \in {"claude", "gpt5_2"}
    /\ Cardinality(OpenIndexes) = 1
    /\ \A o \in OpenIndexes : CallClosed(o)

TheOpen == CHOOSE o \in OpenIndexes : TRUE

\* C7 as claimed: for Claude and GPT-5.2, a stream with exactly one tool
\* invocation (open, k >= 0 argument chunks, close) yields one partial_tool_call
\* with the name, the id and arguments "", one partial_tool_call per argument
\* chunk carrying only its fragment, then one tool_call with the open chunk's
\* name and id and arguments JSON.parse of the concatenated fragments.
C7_OneInvocationEvents ==
    OneClosedInvocation =>
        ToolEventItems = ExpectedPartials(TheOpen) \o <<ExpectedToolCall(TheOpen)>>

\* C7 amended: the same, for the streams whose fragments concatenate to valid
\* JSON; the invocation does not make the stream fail (a stream that failed
\* did so on a later chunk of unknown type).
C7_OneInvocationEventsValidJson ==
    (OneClosedInvocation /\ JSONValid(StreamedArguments(TheOpen))) =>
        /\ ToolEventItems = ExpectedPartials(TheOpen) \o <<ExpectedToolCall(TheOpen)>>
        /\ status = "error" => chunks[Len(chunks)] \in {ClPing, GpFailed}

C7_Witness ==
    /\ OneClosedInvocation
    /\ status = "done"
    /\ LastChunkOf(TheOpen) = TheOpen + 2
    /\ StreamedArguments(TheOpen) = <<"{", "a", "}">>
    /\ Len(ToolEventItems) = 4
    /\ ToolEventItems[4][1].type = "tool_call"
    /\ ToolEventItems[4][1].arguments = {"a"}

\* the yielded tool_call items, in order
RECURSIVE ToolCallsIn(_)
ToolCallsIn(evs) ==
    IF evs = <<>> THEN <<>>
    ELSE SelectSeq(Head(evs).content_items, LAMBDA it : it.type = "tool_call")
         \o ToolCallsIn(Tail(evs))

\* the positions in out of the events that carry a tool_call item
ToolCallPositions ==
    {i \in 1..Len(out) :
        \E j \in 1..Len(out[i].content_items) : out[i].content_items[j].type = "tool_call"}

\* the positions in out of the partial_tool_call events that name tool call id
PartialPositions(id) ==
    {i \in 1..Len(out) :
        \E j \in 1..Len(out[i].content_items) :
            /\ out[i].content_items[j].type = "partial_tool_call"
            /\ out[i].content_items[j].tool_call_id = id}

FirstOpen == CHOOSE o \in OpenIndexes : \A p \in OpenIndexes : o <= p

SecondOpen == CHOOSE o \in OpenIndexes : \A p \in OpenIndexes : p <= o

\* a GLM stream with two tool calls back-to-back, the second announced only by
\* a delta with a name, consumed up to and including the chunk with finish_reason
TwoCallsBackToBack ==
    /\ adapter = "glm"
    /\ Cardinality(OpenIndexes) = 2
    /\ SecondOpen = LastChunkOf(FirstOpen) + 1
    /\ CallClosed(SecondOpen)

TwoToolCallsYielded ==
    /\ ToolCallsIn(out) = ExpectedToolCall(FirstOpen) \o ExpectedToolCall(SecondOpen)
    /\ OpenId(chunks[FirstOpen]) # OpenId(chunks[SecondOpen])
    /\ \A t \in ToolCallPositions, q \in PartialPositions(OpenId(chunks[SecondOpen])) :
          (\A u \in ToolCallPositions : t <= u) => t < q

C9_EndsWithSingleStop ==
    (status = "done") =>
        /\ out # <<>>
        /\ out[Len(out)].event_type = "stop"
        /\ \A i \in 1..(Len(out) - 1) : out[i].event_type # "stop"

\* C10: when a tool call is closed with accumulated arguments that are not
\* valid JSON (the empty string included), streamingResponse fails and yields
\* no tool_call event for that call; no adapter substitutes a default.
C10_MalformedArgumentsFail ==
    \A o \in OpenIndexes :
        (CallClosed(o) /\ ~JSONValid(StreamedArguments(o))) =>
            /\ status = "error"
            /\ \A i \in 1..Len(ToolCallsIn(out)) :
                  ToolCallsIn(out)[i].tool_call_id # OpenId(chunks[o])

(***************************************************************************)
(* Usage reporting of the adapters (checked under SpecAdapter).            *)
(***************************************************************************)
\* what transformModelOutputToUniEvent of adapter a makes of vendor chunk c
TransformOf(a, c) ==
    IF a = "claude" THEN ClaudeTransform(c)
    ELSE IF a = "gpt5_2" THEN GptTransform(c)
    ELSE GlmTransform(c)

\* the chunk consumed by the step, and the events the step yielded
StepChunk == chunks'[Len(chunks')]

StepYielded == {i \in 1..Len(out') : i > Len(out)}

\* C11: every usage_metadata field value carried by a yielded event was
\* reported by the very vendor chunk whose handling yielded the event: no
\* adapter holds back usage of an earlier chunk (prompt and cached tokens of
\* message start) to emit it on a later merged or synthesized stop event.
C11_UsageFromOwnChunk ==
    [][(chunks' # chunks) =>
          \A i \in StepYielded :
             out'[i].usage_metadata # Null =>
                \A f \in UsageFields :
                   Val(out'[i].usage_metadata)[f] # Null =>
                      Val(out'[i].usage_metadata)[f] =
                          ReportedField(TransformOf(adapter, StepChunk), f)]_vars

\* C29: an emitted usage field is null only when the vendor did not report
\* that dimension: a count the vendor reported as 0 (cached tokens, reasoning
\* tokens) is emitted as 0, not as null, by every adapter.
C29_ReportedZeroEmittedAsZero ==
    IF adapter = "claude"
    THEN \A i \in 1..Len(out) :
            (out[i].usage_metadata # Null /\ chunks[1].cache_read_input_tokens = Some(0))
               => Val(out[i].usage_metadata).cached_tokens = Some(0)
    ELSE IF adapter = "gpt5_2"
    THEN \A k \in 1..Len(chunks) :
            (chunks[k].type = "response.completed" /\ chunks[k].usage # Null) =>
               LET emitted == Val(GptTransform(chunks[k]).usage_metadata)
               IN  /\ Val(chunks[k].usage).cached_tokens = 0 =>
                          emitted.cached_tokens = Some(0)
                   /\ Val(chunks[k].usage).reasoning_tokens = 0 =>
                          emitted.thoughts_tokens = Some(0)
    ELSE \A k \in 1..Len(chunks) :
            chunks[k].usage # Null =>
               LET emitted == Val(GlmTransform(chunks[k]).usage_metadata)
               IN  /\ Val(chunks[k].usage).cached_tokens = Some(0) =>
                          emitted.cached_tokens = Some(0)
                   /\ Val(chunks[k].usage).reasoning_tokens = Some(0) =>
                          emitted.thoughts_tokens = Some(0)

\* C30: whenever a vendor chunk reports a total input token count T and a
\* cached input token count C, the emitted usage has cached_tokens = C and
\* prompt_tokens = T - C (GPT-5.2: input_tokens and
\* input_tokens_details.cached_tokens; GLM: prompt_tokens and
\* prompt_tokens_details.cached_tokens; Claude reports no total).
C30_PromptTokensExcludeCached ==
    IF adapter = "gpt5_2"
    THEN \A k \in 1..Len(chunks) :
            (chunks[k].type = "response.completed" /\ chunks[k].usage # Null) =>
               LET emitted == Val(GptTransform(chunks[k]).usage_metadata)
                   T == Val(chunks[k].usage).input_tokens
                   C == Val(chunks[k].usage).cached_tokens
               IN  emitted.cached_tokens = Some(C) /\ emitted.prompt_tokens = Some(T - C)
    ELSE IF adapter = "glm"
    THEN \A k \in 1..Len(chunks) :
            (chunks[k].usage # Null /\ Val(chunks[k].usage).cached_tokens # Null) =>
               LET emitted == Val(GlmTransform(chunks[k]).usage_metadata)
                   T == Val(chunks[k].usage).prompt_tokens
                   C == Val(Val(chunks[k].usage).cached_tokens)
               IN  emitted.cached_tokens = Some(C) /\ emitted.prompt_tokens = Some(T - C)
    ELSE TRUE

(***************************************************************************)
(* clearHistory and getHistory (checked under Spec).                       *)
(***************************************************************************)
\* C12: clearHistory() makes getHistory() return the empty sequence, and a
\* clearHistory() issued while a streamingResponseStateful sequence is in
\* flight does not change, truncate or abort what the sequence delivers: the
\* step that empties the history leaves the generator's position, its event
\* list and the delivered events alone, and the delivered events remain the
\* adapter's events up to and after exhaustion.
C12_ClearHistoryFrame ==
    /\ [][((cleared' /\ ~cleared) \/ (history' = <<>> /\ history # <<>>)) =>
             /\ getHistory' = <<>>
             /\ pc' = pc
             /\ events' = events
             /\ delivered' = delivered
             /\ adapterYielded' = adapterYielded]_vars
    /\ [](cleared => delivered = adapterYielded /\ events = adapterYielded)

\* a clearHistory ran mid-stream, and the stream was still delivered whole
C12_Witness ==
    /\ cleared /\ pc = "done"
    /\ delivered = <<DeltaHel, DeltaLo, StopTwo>>
    /\ history = <<concatUniEventsToUniMessage(<<DeltaHel, DeltaLo, StopTwo>>)>>

\* the history as a later getHistory() would show it and as the adapter would
\* be sent it
HistoryContents == Deref(heap, historyRefs)

\* the step is a mutation by the caller of what getHistory() returned
CallerMutation ==
    /\ returned # Null /\ returned' # Null
    /\ sent' = sent
    /\ (heap' # heap \/ returned' # returned)

\* C13: getHistory() returns a snapshot that does not alias the controller's
\* state: no mutation the caller performs on the returned value (adding or
\* removing messages, modifying a returned message or one of its content
\* items) changes what a later getHistory() returns or what the adapter is
\* sent on the next turn.
C13_SnapshotNotAliased ==
    [][CallerMutation => HistoryContents' = HistoryContents]_vars

(***************************************************************************)
(* Concurrent invocations (checked under SpecConcurrent).                  *)
(***************************************************************************)
\* the local state of an invocation of adapter a that consumed chunks cs with
\* no other invocation running
RECURSIVE RunAlone(_, _)
RunAlone(a, cs) ==
    IF cs = <<>>
    THEN [out |-> <<>>, partialToolCall |-> EmptyToolCall,
          partialUsage |-> EmptyUsage, status |-> "running"]
    ELSE LET st == RunAlone(a, SubSeq(cs, 1, Len(cs) - 1))
         IN  IF st.status = "error" THEN st ELSE HandleOf(a, st, cs[Len(cs)])

\* C14: two streamingResponse invocations running concurrently on the same
\* adapter instance, interleaved at vendor-chunk granularity, each yield
\* exactly the events they would yield when run alone on their own chunk
\* sequence (and fail exactly when they would fail alone): the tool-call
\* accumulator and the buffered usage are per invocation.
C14_ConcurrentInvocationsIndependent ==
    \A i \in Invocations :
       LET alone == RunAlone(adapter, invocations[i].chunks)
       IN  /\ invocations[i].out = alone.out
           /\ (invocations[i].status = "error") = (alone.status = "error")
           /\ accumulators[i].partialToolCall = alone.partialToolCall
           /\ accumulators[i].partialUsage = alone.partialUsage

\* both invocations had a tool call open at the same time and each yielded its own
C14_Witness ==
    /\ \A i \in Invocations :
          \E k \in 1..Len(invocations[i].out) :
             /\ invocations[i].out[k].content_items # <<>>
             /\ invocations[i].out[k].content_items[1].type = "tool_call"
             /\ invocations[i].out[k].content_items[1].tool_call_id = "call_1"
    /\ invocations[1].out # invocations[2].out

(***************************************************************************)
(* Request preparation (checked under SpecRequest).                        *)
(***************************************************************************)
HasToolResultImages(msgs) ==
    \E i \in 1..Len(msgs) :
       \E j \in 1..Len(msgs[i].content_items) :
          /\ msgs[i].content_items[j].type = "tool_result"
          /\ Len(msgs[i].content_items[j].images) > 0

\* the request violates a precondition of its adapter
PreconditionViolated ==
    \/ /\ reqAdapter = "gpt5_2"
       /\ reqConfig.temperature # Null /\ Val(reqConfig.temperature) # 10
    \/ /\ reqAdapter = "claude"
       /\ reqConfig.tool_choice # Null
       /\ Val(reqConfig.tool_choice).kind = "list"
       /\ Len(Val(reqConfig.tool_choice).names) > 1
    \/ /\ reqAdapter \in {"glm", "qwen3"}
       /\ reqConfig.tool_choice # Null /\ Val(reqConfig.tool_choice).kind # "auto"
    \/ /\ reqAdapter \in {"glm", "qwen3", "gemini3"}
       /\ reqConfig.prompt_caching # Null /\ Val(reqConfig.prompt_caching) # "enable"
    \/ /\ reqAdapter = "glm"
       /\ HasToolResultImages(reqMessages)

\* the config and the messages went through their transforms
Prepared == reqPc \notin {"called", "configured"}

\* C15: for every adapter, a configuration or message precondition violation
\* (GPT-5.2 with a temperature other than 1.0; Claude with a tool_choice list
\* of more than one name; GLM or Qwen3 with a tool_choice other than "auto";
\* GLM, Qwen3 or Gemini with prompt_caching other than "enable"; GLM with
\* images in a tool result) is raised by streamingResponse before the vendor
\* connection is opened: the connection is never opened for such a request,
\* and once the transforms ran the generator has raised.
C15_PreconditionsBeforeConnection ==
    PreconditionViolated =>
        /\ ~connected
        /\ (Prepared => reqPc = "raised" /\ reqError # Null)

\* GLM got images in a tool result of an otherwise acceptable request and raised
C15_Witness ==
    /\ reqAdapter = "glm" /\ reqPc = "raised" /\ ~connected
    /\ reqError = Some("GLM does not support images in tool results.")
    /\ reqVendorConfig # <<>>

\* C16: transformUniConfigToModelConfig never replaces a value the caller
\* supplied: for the Claude adapter, a config with thinking_level set together
\* with a temperature other than 1.0 raises an error instead of producing a
\* vendor config whose temperature is 1.0.
C16_ClaudeTemperatureNotOverridden ==
    (/\ reqAdapter = "claude"
     /\ reqPc # "called"
     /\ reqConfig.thinking_level # Null
     /\ reqConfig.temperature # Null /\ Val(reqConfig.temperature) # 10) =>
        /\ reqPc = "raised"
        /\ reqVendorConfig = <<>>

\* the vendor keys that control each UniConfig field, per adapter
ControllingKeys(a, field) ==
    IF a = "claude"
    THEN CASE field = "max_tokens" -> {"max_tokens"}
           [] field = "temperature" -> {"temperature"}
           [] field = "tools" -> {"tools"}
           [] field = "thinking_level" -> {"thinking"}
           [] field = "tool_choice" -> {"tool_choice"}
           [] field = "system_prompt" -> {"system"}
           [] OTHER -> {}
    ELSE IF a = "gpt5_2"
    THEN CASE field = "max_tokens" -> {"max_output_tokens"}
           [] field = "temperature" -> {"temperature"}
           [] field = "tools" -> {"tools"}
           [] field = "thinking_level" -> {"reasoning.effort"}
           [] field = "thinking_summary" -> {"reasoning.summary"}
           [] field = "tool_choice" -> {"tool_choice"}
           [] field = "system_prompt" -> {"instructions"}
           [] OTHER -> {}
    ELSE IF a \in {"glm", "qwen3"}
    THEN CASE field = "max_tokens" -> {"max_tokens"}
           [] field = "temperature" -> {"temperature"}
           [] field = "tools" -> {"tools"}
           [] field = "thinking_level" -> {"extra_body.thinking"}
           [] field = "tool_choice" -> {"tool_choice"}
           [] OTHER -> {}
    ELSE CASE field = "max_tokens" -> {"maxOutputTokens"}
           [] field = "temperature" -> {"temperature"}
           [] field = "tools" -> {"tools"}
           [] field = "thinking_level" -> {"thinkingConfig.thinkingLevel"}
           [] field = "thinking_summary" -> {"thinkingConfig.includeThoughts"}
           [] field = "tool_choice" -> {"toolConfig.functionCallingConfig"}
           [] field = "system_prompt" -> {"systemInstruction"}
           [] OTHER -> {}

ConfigFields ==
    {"max_tokens", "temperature", "tools", "thinking_level", "thinking_summary",
     "tool_choice", "system_prompt"}

\* C17: for every adapter and every UniConfig field F among max_tokens,
\* temperature, tools, thinking_level, thinking_summary, tool_choice and
\* system_prompt: when F is absent from the config, the vendor config that
\* transformUniConfigToModelConfig returned holds no key that controls F's
\* feature: no default value is substituted.
C17_AbsentFieldsOmitted ==
    (reqPc = "configured") =>
        \A field \in ConfigFields :
           reqConfig[field] = Null =>
              ControllingKeys(reqAdapter, field) \cap DOMAIN reqVendorConfig = {}

\* C18: for every adapter, a tool_choice given as a list of n >= 2 tool names
\* is either mapped to a vendor restriction that names exactly those n tools
\* or rejected with an error; it is never truncated and never silently left
\* out of the vendor config.
C18_ToolChoiceListKeptOrRejected ==
    (/\ reqPc # "called"
     /\ reqConfig.tool_choice # Null
     /\ Val(reqConfig.tool_choice).kind = "list"
     /\ Len(Val(reqConfig.tool_choice).names) >= 2) =>
        \/ reqPc = "raised" /\ reqVendorConfig = <<>>
        \/ \E key \in ControllingKeys(reqAdapter, "tool_choice") :
              /\ key \in DOMAIN reqVendorConfig
              /\ reqVendorConfig[key].names = Val(reqConfig.tool_choice).names

(***************************************************************************)
(* Event integrity of the adapters (checked under SpecAdapter).            *)
(***************************************************************************)
FinishReasons == {Some("stop"), Some("length"), Some("unknown"), Null}

\* the vendor's finish, stop or status value of chunk c, Null if it has none
VendorFinishValue(a, c) ==
    IF a = "claude" THEN (IF c.type = "message_delta" THEN c.stop_reason ELSE Null)
    ELSE IF a = "gpt5_2" THEN (IF c.type = "response.completed" THEN c.status ELSE Null)
    ELSE c.finish_reason

\* the values the adapter's lookup table holds
FinishTable(a) ==
    IF a = "claude" THEN {"end_turn", "max_tokens", "stop_sequence", "tool_use"}
    ELSE IF a = "gpt5_2" THEN {"completed", "incomplete"}
    ELSE {"stop", "length", "tool_calls", "content_filter"}

\* C19: for every adapter, transformModelOutputToUniEvent maps a vendor finish,
\* stop or status value that is absent from the adapter's lookup table to
\* finish_reason "unknown", and every yielded event has finish_reason in
\* {"stop", "length", "unknown", null}: never undefined, never a defaulted "stop".
C19_FinishReasonTotal ==
    /\ \A i \in 1..Len(out) : out[i].finish_reason \in FinishReasons
    /\ \A k \in 1..Len(chunks) :
          LET v == VendorFinishValue(adapter, chunks[k])
          IN  (Truthy(v) /\ Val(v) \notin FinishTable(adapter)) =>
                 TransformOf(adapter, chunks[k]).finish_reason = Some("unknown")

EventTypes == {"start", "delta", "stop"}

\* C20: no event whose event_type is "unused" (or unset) is ever yielded by
\* streamingResponse: every yielded event has event_type in {"start",
\* "delta", "stop"}, and a vendor housekeeping chunk is consumed without a
\* yielded event.
C20_UnusedNeverYielded ==
    /\ [](\A i \in 1..Len(out) : out[i].event_type \in EventTypes)
    /\ [][(chunks' # chunks /\
           TransformOf(adapter, StepChunk).event_type \notin EventTypes) =>
              out' = out]_vars

\* housekeeping chunks were consumed among the chunks of a stream that yielded
\* events and ended
C20_Witness ==
    /\ status = "done" /\ out # <<>>
    /\ \E k \in 1..Len(chunks) :
          TransformOf(adapter, chunks[k]).event_type \notin EventTypes
    /\ adapter = "gpt5_2"
    /\ Len(out) < Len(chunks) - 1

(***************************************************************************)
(* Tracing (checked under Spec).                                           *)
(***************************************************************************)
\* saveHistory is called only from the statement after the append, at most
\* once per turn, with the history as it then is; a turn without a truthy
\* trace_id never calls it, and a turn with one has called it when it ends
SavedOncePerTurn ==
    /\ [][saved'.count > saved.count =>
             (pc = "tracing" /\ saved'.last = history /\ history' = history)]_vars
    /\ [](saved.count <= 1)
    /\ [](~traceId => saved.count = 0)
    /\ []((pc = "done" /\ turn > 0 /\ traceId) => saved.count = 1)

DanglingToolResult(msgs, i, j) ==
    /\ msgs[i].content_items[j].type = "tool_result"
    /\ \/ msgs[i].content_items[j].tool_call_id = ""
       \/ ~\E i2 \in 1..i : \E j2 \in 1..Len(msgs[i2].content_items) :
              /\ i2 < i \/ j2 < j
              /\ msgs[i2].content_items[j2].type = "tool_call"
              /\ msgs[i2].content_items[j2].tool_call_id =
                    msgs[i].content_items[j].tool_call_id

\* C26: for every adapter, transformUniMessageToModelInput raises an error
\* when a tool_result item's tool_call_id is empty or equals the tool_call_id
\* of no earlier tool_call item: with such an item in the messages the
\* transform never returns and no vendor connection is opened.
C26_DanglingToolResultRejected ==
    (\E i \in 1..Len(reqMessages) : \E j \in 1..Len(reqMessages[i].content_items) :
        DanglingToolResult(reqMessages, i, j)) =>
            (reqPc \notin {"ready", "streaming", "done"} /\ ~connected)

(***************************************************************************)
(* Prompt caching of the Claude adapter (checked under SpecRequest).       *)
(***************************************************************************)
\* the content blocks of the request that carry cache_control, as <<message, block>>
CacheMarked ==
    {p \in {<<i, b>> : i \in 1..Len(Val(reqSent)), b \in 1..MaxItems} :
        /\ p[2] <= Len(Val(reqSent)[p[1]].content)
        /\ "cache_control" \in DOMAIN Val(reqSent)[p[1]].content[p[2]]}

\* the last user-role message of the request
LastUserSent ==
    CHOOSE i \in 1..Len(Val(reqSent)) :
        /\ Val(reqSent)[i].role = "user"
        /\ \A j \in 1..Len(Val(reqSent)) : Val(reqSent)[j].role = "user" => j <= i

\* exactly the last content block of the last user message carries
\* cache_control, with ttl "1h" for "enhance" and "5m" otherwise
LastUserBlockMarked ==
    LET n == Len(Val(reqSent)[LastUserSent].content)
    IN  /\ CacheMarked = {<<LastUserSent, n>>}
        /\ Val(reqSent)[LastUserSent].content[n].cache_control =
              [type |-> "ephemeral",
               ttl |-> IF reqConfig.prompt_caching = Some("enhance") THEN "1h" ELSE "5m"]

\* C28 as stated: for the Claude adapter, when prompt_caching is not
\* "disable" (absent included) and the messages contain a user message with
\* at least one content item, the request has exactly one content block
\* carrying cache_control, the last content block of the last user message,
\* with ttl "1h" for "enhance" and "5m" otherwise; with "disable" no block
\* carries cache_control.
C28_CacheControlOnLastUserBlock ==
    (reqAdapter = "claude" /\ connected) =>
        IF reqConfig.prompt_caching = Some("disable") THEN CacheMarked = {}
        ELSE (\E i \in 1..Len(reqMessages) :
                 reqMessages[i].role = "user" /\ reqMessages[i].content_items # <<>>) =>
                    LastUserBlockMarked

\* C28 amended: the same, when the last user message of the list has at least
\* one content item; when it has none, no block carries cache_control.
C28_CacheControlOnLastUserBlockIfAny ==
    (reqAdapter = "claude" /\ connected) =>
        IF reqConfig.prompt_caching = Some("disable") THEN CacheMarked = {}
        ELSE IF Val(reqSent)[LastUserSent].content # <<>> THEN LastUserBlockMarked
        ELSE CacheMarked = {}

\* a request with "enhance" whose last user message has two blocks was sent
\* with the second block marked for one hour
C28_Witness ==
    /\ reqAdapter = "claude" /\ connected
    /\ reqConfig.prompt_caching = Some("enhance")
    /\ reqMessages = <<UserShows>>
    /\ CacheMarked = {<<1, 2>>}
    /\ Val(reqSent)[1].content[2].cache_control.ttl = "1h"

(***************************************************************************)
(* The signature round trip (checked under SpecRoundTrip).                 *)
(***************************************************************************)
NextTurnInput == Val(rtInput).input

\* chunk k completes a reasoning item (GPT-5.2) or signs a thinking block (Claude)
CarriesSignature(k) ==
    IF rtAdapter = "claude" THEN ClIsSignatureDelta(rtChunks[k])
    ELSE GpIsReasoningDone(rtChunks[k])

\* chunk k opens an output item (GPT-5.2) or a content block (Claude)
OpensItem(k) ==
    IF rtAdapter = "claude" THEN rtChunks[k].type = "content_block_start"
    ELSE rtChunks[k].type = "response.output_item.added"

\* the item or block opened at chunk k is a reasoning item or thinking block
OpensReasoning(k) ==
    IF rtAdapter = "claude" THEN ClIsThinkingStart(rtChunks[k])
    ELSE GpIsReasoningAdded(rtChunks[k])

\* the next item the stream opens after chunk k is again reasoning
FollowedByReasoning(k) ==
    \E n \in (k + 1)..Len(rtChunks) :
        /\ OpensItem(n) /\ OpensReasoning(n)
        /\ \A m \in (k + 1)..(n - 1) : ~OpensItem(m)

\* the next turn's vendor input sends back what chunk k carried
SentBack(k) ==
    IF rtAdapter = "claude"
    THEN \E i \in 1..Len(NextTurnInput) :
            \E b \in 1..Len(NextTurnInput[i].content) :
                /\ NextTurnInput[i].content[b].type = "thinking"
                /\ NextTurnInput[i].content[b].signature = Some(rtChunks[k].signature)
    ELSE \E i \in 1..Len(NextTurnInput) :
            /\ "type" \in DOMAIN NextTurnInput[i]
            /\ NextTurnInput[i].type = "reasoning"
            /\ NextTurnInput[i].id = Some(rtChunks[k].id)
            /\ NextTurnInput[i].encrypted_content = Some(rtChunks[k].encrypted_content)

C21_UnknownChunkThrows ==
    /\ [][LET Recognised ==
                  IF adapter = "claude"
                  THEN {"content_block_start", "content_block_delta",
                        "content_block_stop", "message_start", "message_delta",
                        "message_stop"}
                  ELSE {"response.output_text.delta",
                        "response.reasoning_summary_text.delta",
                        "response.output_item.added", "response.output_item.done",
                        "response.function_call_arguments.delta",
                        "response.function_call_arguments.done", "response.completed"}
              AllowList ==
                  IF adapter = "claude"
                  THEN {"text", "thinking", "signature", "input_json"}
                  ELSE {"response.created", "response.in_progress",
                        "response.output_text.done",
                        "response.reasoning_summary_part.added",
                        "response.reasoning_summary_part.done",
                        "response.reasoning_summary_text.done",
                        "response.content_part.added", "response.content_part.done"}
          IN  (adapter \in {"claude", "gpt5_2"} /\ chunks' # chunks /\
               StepChunk.type \notin (Recognised \cup AllowList)) =>
                  (status' = "error" /\ out' = out)]_vars
    /\ [][status = "error" => (chunks' = chunks /\ out' = out /\ status' = "error")]_vars

\* a GPT-5.2 stream that had yielded events met a chunk of unknown type and failed
C21_Witness ==
    /\ adapter = "gpt5_2" /\ status = "error" /\ out # <<>>
    /\ chunks[Len(chunks)] = GpFailed

(***************************************************************************)
(* Properties of the router (checked under SpecRouter).                    *)
(***************************************************************************)
Families == <<"Gemini3Client", "Claude4_5Client", "GPT5_2Client", "GLM4_7Client", "Qwen3Client">>

FamilyMatches(family, name) ==
    CASE family = "Gemini3Client" -> includes(name, "gemini-3")
      [] family = "Claude4_5Client" -> includes(name, "claude") /\ includes(name, "4-5")
      [] family = "GPT5_2Client" -> includes(name, "gpt-5.1") \/ includes(name, "gpt-5.2")
      [] family = "GLM4_7Client" -> includes(name, "glm-4.7")
      [] family = "Qwen3Client" -> includes(name, "qwen3")

\* the constructor threw "not supported" for a name no family matches, and
\* otherwise selected the first family, in the fixed order, that matches it
RoutedBy(name) ==
    LET matching == {i \in 1..Len(Families) : FamilyMatches(Families[i], name)}
    IN  IF matching = {}
        THEN autoClient = Null /\ autoError = Some("not supported")
        ELSE /\ autoError = Null
             /\ autoClient = Some(Families[CHOOSE i \in matching : \A j \in matching : i <= j])

EndsUnexhausted == pc = "streaming" /\ pc' \in {"failed", "returned"}

AssistantAppended ==
    /\ Len(history') = Len(history) + 1
    /\ history'[Len(history')].role = "assistant"

\* C32: an assistant message is appended to history only when the adapter's
\* sequence ran to exhaustion.  When streamingResponse throws or the consumer
\* stops iterating early, the step appends nothing and saves no trace, the
\* user message of the call stays in history (unless clearHistory ran), and
\* the next streamingResponseStateful call appends its user message to that
\* history and hands the adapter the whole of it.
C32_AssistantOnlyOnExhaustion ==
    [][ /\ AssistantAppended => pc = "streaming" /\ pc' \in {"tracing", "done"}
        /\ EndsUnexhausted => history' = history /\ saved' = saved
        /\ (pc \in {"failed", "returned"} /\ ~cleared) =>
              /\ history = Append(historyAtCall, Val(message))
              /\ saved.count = 0
        /\ (pc \in {"failed", "returned"} /\ pc' = "streaming") =>
              /\ history' = Append(history, Val(message'))
              /\ adapterArg' = history'
      ]_vars

\* the first turn failed or was abandoned, the second was abandoned after an
\* event was delivered: history holds the two user messages and nothing else
C32_Witness ==
    /\ pc = "returned" /\ turn = 2 /\ ~cleared
    /\ delivered # <<>>
    /\ Len(history) = 2
    /\ history[1].role = "user" /\ history[2].role = "user"

(***************************************************************************)
(* Properties of overlapping stateful calls (checked under SpecOverlap).   *)
(***************************************************************************)
BothExhausted ==
    /\ \A c \in Calls : ovPc[c] = "done" /\ ovEvents[c] # <<>>
    /\ ~ovCleared

\* C33: when two streamingResponseStateful calls of one client are both
\* consumed to exhaustion with non-empty streams and clearHistory is not
\* called, then whatever the interleaving (the second started before the
\* first is exhausted included) the history is the earlier history followed
\* by exactly four messages: both user messages and both reassembled
\* assistant messages, each once, each call's user message before that
\* call's assistant message.
C33_OverlapKeepsAllFour ==
    BothExhausted =>
        LET n == Len(ovBase)
            appended == (n + 1)..(n + 4)
        IN  /\ Len(ovHistory) = n + 4
            /\ SubSeq(ovHistory, 1, n) = ovBase
            /\ \E u1, a1, u2, a2 \in appended :
                  /\ Cardinality({u1, a1, u2, a2}) = 4
                  /\ u1 < a1 /\ u2 < a2
                  /\ ovHistory[u1] = ovMessage[1]
                  /\ ovHistory[a1] = concatUniEventsToUniMessage(ovEvents[1])
                  /\ ovHistory[u2] = ovMessage[2]
                  /\ ovHistory[a2] = concatUniEventsToUniMessage(ovEvents[2])

\* the second call started while the first was streaming and was exhausted
\* first: the history reads user 1, user 2, assistant 2, assistant 1
C33_Witness ==
    /\ BothExhausted
    /\ ovBase # <<>>
    /\ ovEvents[1] # ovEvents[2]
    /\ SubSeq(ovHistory, Len(ovBase) + 1, Len(ovHistory)) =
          <<ovMessage[1], ovMessage[2],
            concatUniEventsToUniMessage(ovEvents[2]),
            concatUniEventsToUniMessage(ovEvents[1])>>

(***************************************************************************)
(* Pairing of user and assistant messages (checked under Spec).            *)
(***************************************************************************)
\* C34: with user-role submissions and one stream in flight at a time, in
\* every reachable state every assistant message in history is immediately
\* preceded by a user message, and history never begins with an assistant
\* message; this includes the states reached when clearHistory is called
\* while a sequence is in flight and the sequence is then exhausted.
C34_AssistantPrecededByUser ==
    \A i \in 1..Len(history) :
        history[i].role = "assistant" => i > 1 /\ history[i - 1].role = "user"

(***************************************************************************)
(* Ordering of the fragments and the tool_call event of each call of a     *)
(* stream (checked under SpecGlmMerged and SpecQwen3).                     *)
(***************************************************************************)
\* the content items of the yielded events, each with its event's position
RECURSIVE ItemsFrom(_, _)
ItemsFrom(evs, i) ==
    IF i > Len(evs) THEN <<>>
    ELSE [j \in 1..Len(evs[i].content_items) |->
             [pos |-> i, item |-> evs[i].content_items[j]]] \o ItemsFrom(evs, i + 1)

Yielded == ItemsFrom(out, 1)

IsFragment(e) == e.item.type = "partial_tool_call"

\* the call a yielded fragment belongs to: the calls opened up to it
CallOf(j) ==
    Cardinality({m \in 1..j : IsFragment(Yielded[m]) /\ Yielded[m].item.name # ""})

FragmentIndexes(k) ==
    {j \in 1..Len(Yielded) : IsFragment(Yielded[j]) /\ CallOf(j) = k}

ToolCallIndexes == {j \in 1..Len(Yielded) : Yielded[j].item.type = "tool_call"}

\* the index in Yielded of the k-th tool_call item
ToolCallIndex(k) ==
    CHOOSE j \in ToolCallIndexes :
        Cardinality({m \in ToolCallIndexes : m <= j}) = k

RECURSIVE ConcatFragments(_, _)
ConcatFragments(k, j) ==
    IF j > Len(Yielded) THEN <<>>
    ELSE (IF j \in FragmentIndexes(k) THEN Yielded[j].item.arguments ELSE <<>>)
         \o ConcatFragments(k, j + 1)

\* C36: for the GLM adapter, every partial_tool_call fragment of a call is
\* yielded before that call's tool_call event, and the tool_call's
\* arguments are JSON.parse of the concatenation of all of the call's
\* yielded fragments, also when one chunk carries the last fragment of a
\* call and the opening of the next, or a fragment and the finish reason.
\* (Stated for the calls that stream some argument text.)
C36_FragmentsBeforeToolCall ==
    \A k \in 1..Cardinality(ToolCallIndexes) :
        ConcatFragments(k, 1) # <<>> =>
            /\ \A j \in FragmentIndexes(k) :
                  Yielded[j].pos < Yielded[ToolCallIndex(k)].pos
            /\ LET parsed == JSONParse(ConcatFragments(k, 1))
               IN  parsed.ok /\ Yielded[ToolCallIndex(k)].item.arguments = parsed.value

\* the yielded fragments that open a tool call
Openings == {j \in 1..Len(Yielded) : IsFragment(Yielded[j]) /\ Yielded[j].item.name # ""}

\* the tool_call items yielded for the call that fragment j opened
ClosersOf(j) == {m \in ToolCallIndexes : m > j /\ CallOf(m) = CallOf(j)}

\* C35: when the vendor's finite chunk sequence ended with its terminal
\* signal and streamingResponse returned, every tool call for which a
\* partial_tool_call event was yielded has been followed by exactly one
\* tool_call event with the same name and tool_call_id.
C35_EveryPartialClosedOnce ==
    (status = "done" /\ CountWhere(chunks, GlmIsFinish) > 0) =>
        \A j \in Openings :
            /\ Cardinality(ClosersOf(j)) = 1
            /\ \A m \in ClosersOf(j) :
                  /\ Yielded[m].item.name = Yielded[j].item.name
                  /\ Yielded[m].item.tool_call_id = Yielded[j].item.tool_call_id

\* C37: for the Qwen3 adapter with native tool_calls deltas, a turn with
\* one tool call (whose fragments concatenate to valid JSON) yields exactly
\* one tool_call event, and its arguments are JSON.parse of the
\* concatenation of the arguments of all partial_tool_call items yielded
\* for the call, the fragment of the opening chunk included.
C37_NativeCallParsedFromAllFragments ==
    (/\ status = "done"
     /\ CountWhere(chunks, GlmIsToolOpen) = 1
     /\ JSONValid(ConcatFragments(1, 1))) =>
        /\ Cardinality(ToolCallIndexes) = 1
        /\ \A m \in ToolCallIndexes :
              Yielded[m].item.arguments = JSONParse(ConcatFragments(1, 1)).value

\* the content text of the chunks of cs after its last tag chunk
RECURSIVE TextFrom(_, _)
TextFrom(cs, i) ==
    IF i > Len(cs) THEN ""
    ELSE (IF Truthy(cs[i].content) THEN Val(cs[i].content) ELSE "") \o TextFrom(cs, i + 1)

BufferedText(cs) == TextFrom(cs, LastTag(cs) + 1)

FunctionCallParts(c) == {i \in 1..Len(c.parts) : c.parts[i].functionCall # Null}

\* C39: for the Gemini adapter, a chunk with n function calls yields n + 1
\* events: first one partial_tool_call event per call, in the order of the
\* calls, each with the call's name, tool_call_id and signature and with
\* arguments JSON.stringify of the call's arguments, and then the chunk's
\* own event, which carries the tool_call items.
C39_PartialBeforeEachToolCall ==
    [][ (status = "running" /\ chunks' # chunks /\ status' = "running") =>
          LET c == chunks'[Len(chunks')]
              n == Cardinality(FunctionCallParts(c))
              own == out'[Len(out')]
              calls == SelectSeq(own.content_items, LAMBDA it : it.type = "tool_call")
          IN  /\ Len(out') = Len(out) + n + 1
              /\ SubSeq(out', 1, Len(out)) = out
              /\ Len(calls) = n
              /\ Len(own.content_items) = Len(c.parts)
              /\ \A k \in 1..n :
                    LET partial == out'[Len(out) + k]
                    IN  /\ partial.event_type = "delta"
                        /\ Len(partial.content_items) = 1
                        /\ partial.content_items[1] =
                              GemPartialToolCallItem(calls[k].name,
                                  JSONStringify(calls[k].arguments),
                                  calls[k].tool_call_id, calls[k].signature)
      ]_vars

\* a chunk with two function calls was yielded as two partial_tool_call
\* events followed by the event with the two tool_call items
C39_Witness ==
    /\ adapter = "gemini3" /\ status = "running"
    /\ Len(chunks) = 1 /\ Len(out) = 3
    /\ out[1].content_items[1].type = "partial_tool_call"
    /\ out[1].content_items[1].name = "get_time"
    /\ out[1].content_items[1].arguments = <<"{", "}">>
    /\ out[2].content_items[1].name = "get_weather"
    /\ out[2].content_items[1].signature = Some("sig")
    /\ out[3].content_items[1].type = "tool_call"
    /\ out[3].content_items[2].type = "tool_call"

(***************************************************************************)
(* Order of the GPT-5.2 input items (checked under SpecRequest).           *)
(***************************************************************************)
\* the input item at position p is a role message that carries the text
CarriesText(input, p, text) ==
    /\ "content" \in DOMAIN input[p]
    /\ \E k \in 1..Len(input[p].content) :
          "text" \in DOMAIN input[p].content[k] /\ input[p].content[k].text = text

\* the input item at position q is the function_call of the call
IsFunctionCall(input, q, id) ==
    /\ "type" \in DOMAIN input[q]
    /\ input[q].type = "function_call"
    /\ input[q].call_id = id

\* C40: for the GPT-5.2 adapter, the input items produced for a message's
\* content items keep the order of those content items: for a text item that
\* precedes a tool_call item in a message, the input item carrying the text
\* comes before that call's function_call item.
C40_GptInputKeepsContentOrder ==
    (reqAdapter = "gpt5_2" /\ reqSent # Null) =>
        LET input == Val(reqSent)
        IN  \A m \in 1..Len(reqMessages) :
                \A i, j \in 1..Len(reqMessages[m].content_items) :
                    LET first == reqMessages[m].content_items[i]
                        second == reqMessages[m].content_items[j]
                    IN  (i < j /\ first.type = "text" /\ second.type = "tool_call") =>
                            \A p, q \in 1..Len(input) :
                                (/\ CarriesText(input, p, first.text)
                                 /\ IsFunctionCall(input, q, second.tool_call_id)) => p < q

====
